---- MODULE Spec2Model ----
(***************************************************************************)
(* The byte-level memory model of the MIR interpreter                      *)
(* (compiler/rustc_middle/src/mir/interpret/allocation.rs): one Allocation *)
(* with its byte buffer, initialization mask and provenance map, and the   *)
(* operations that read and write it.                                      *)
(*                                                                         *)
(* The submodules init_mask and provenance_map, the Scalar type and the    *)
(* target-integer encoders are used by allocation.rs but their code is not *)
(* part of the sources at hand; they are modelled from the design          *)
(* description (see the section "Collaborators").                          *)
(***************************************************************************)
EXTENDS Integers, Sequences, FiniteSets, TLC

(***************************************************************************)
(* Bounds of the model.                                                    *)
(***************************************************************************)
\* Largest buffer length of the allocation under test.
MaxLen == 3
\* cx.data_layout().pointer_size, in bytes.
PtrSize == 2
\* Number of values one byte can take (256 in the program).
ByteBase == 2
\* Largest value of a Size (u64::MAX in the program).
SizeMax == 7

Provs == {"A", "B"}
None == "none"
Endians == {"Little", "Big"}
Mutabilities == {"Mut", "Not"}
Aligns == {1, 8}

RECURSIVE Pow(_, _)
Pow(b, n) == IF n = 0 THEN 1 ELSE b * Pow(b, n - 1)

Min(S) == CHOOSE x \in S : \A y \in S : x <= y

VARIABLES
    alloc,          \* the Allocation: bytes, provenance, init_mask, align, mutability, extra
    endian,         \* cx.data_layout().endian
    offsetIsAddr,   \* Prov::OFFSET_IS_ADDR of the provenance kind
    destroyAllowed, \* whether clearing may destroy a pointer it only partly covers
    last,           \* the operation performed last and how it ended
    rng,            \* the ranges given to subrange and what it returned
    cp,             \* a bulk copy: source, destination, prepared copies, results
    hs,             \* two allocations, their comparison and what each feeds the hasher
    adj,            \* a call of adjust_from_tcx: the allocation, the remapping, the outcome
    mk,             \* a call of uninit: its arguments, the buffer request, the outcome
    srv             \* the language server: main loop, pending requests, pool jobs, task channel

\* The value of a variable that a specification does not use.
Idle == "idle"

(***************************************************************************)
(* AllocRange                                                              *)
(***************************************************************************)
Overflow == -1

\* Size + Size: checked addition.
SizeAdd(a, b) == IF a = Overflow \/ b = Overflow \/ a + b > SizeMax THEN Overflow ELSE a + b

alloc_range(start, size) == [start |-> start, size |-> size]

end(r) == SizeAdd(r.start, r.size)

Panic == [tag |-> "Panic"]

\* subrange without its assertion.
subrange_unchecked(self, sub) ==
    LET sub_start == SizeAdd(self.start, sub.start)
    IN  IF sub_start = Overflow THEN Panic
        ELSE [tag |-> "Ok", range |-> alloc_range(sub_start, sub.size)]

\* subrange that takes the inner start as it is, not relative to self.
subrange_absolute(self, sub) ==
    IF end(sub) = Overflow \/ end(self) = Overflow THEN Panic
    ELSE IF end(sub) <= end(self) THEN [tag |-> "Ok", range |-> sub] ELSE Panic

subrange(self, sub) ==
    LET sub_start == SizeAdd(self.start, sub.start)
        range == alloc_range(sub_start, sub.size)
    IN  IF sub_start = Overflow \/ end(range) = Overflow \/ end(self) = Overflow
        THEN Panic
        ELSE IF end(range) <= end(self)
             THEN [tag |-> "Ok", range |-> range]
             ELSE Panic

\* The byte offsets of a range.
RangeBytes(r) == r.start..(r.start + r.size - 1)

(***************************************************************************)
(* Collaborators: results, scalars, target integers                        *)
(***************************************************************************)
Ok(v) == [tag |-> "Ok", val |-> v]
Err(e) == [tag |-> "Err", err |-> e]

ScalarInt(bits, size) == [tag |-> "Int", bits |-> bits, size |-> size]
ScalarPtr(prov, offset) == [tag |-> "Ptr", prov |-> prov, offset |-> offset, size |-> PtrSize]

\* Scalar::from_uint
from_uint(bits, size) == ScalarInt(bits, size)
\* Scalar::from_pointer
from_pointer(prov, offset) == ScalarPtr(prov, offset)
\* Scalar::from_maybe_pointer
from_maybe_pointer(prov, offset) ==
    IF prov = None THEN ScalarInt(offset, PtrSize) ELSE ScalarPtr(prov, offset)

\* Scalar::to_bits_or_ptr_internal
to_bits_or_ptr_internal(val, target_size) ==
    IF val.size # target_size
    THEN Err("ScalarSizeMismatch")
    ELSE IF val.tag = "Ptr"
         THEN Ok([bytes |-> val.offset, provenance |-> val.prov])
         ELSE Ok([bytes |-> val.bits, provenance |-> None])

\* write_target_uint: the low `size` bytes of data, in the target's byte order.
write_target_uint(en, size, data) ==
    [i \in 1..size |->
        LET k == IF en = "Little" THEN i - 1 ELSE size - i
        IN  (data \div Pow(ByteBase, k)) % ByteBase]

\* read_target_uint
RECURSIVE read_target_uint(_, _)
read_target_uint(en, bs) ==
    IF bs = <<>> THEN 0
    ELSE IF en = "Little"
         THEN bs[1] + ByteBase * read_target_uint(en, Tail(bs))
         ELSE bs[Len(bs)] + ByteBase * read_target_uint(en, SubSeq(bs, 1, Len(bs) - 1))

\* Prov::join
join(l, r) ==
    IF l = None THEN r
    ELSE IF r = None THEN l
    ELSE IF l = r THEN l ELSE None

(***************************************************************************)
(* Collaborators: InitMask                                                 *)
(***************************************************************************)
InitMaskNew(size, state) == [i \in 1..size |-> state]

set_range(m, r, new_state) ==
    [i \in 1..Len(m) |-> IF (i - 1) \in RangeBytes(r) THEN new_state ELSE m[i]]

is_range_initialized(m, r) ==
    LET un == {o \in RangeBytes(r) : ~m[o + 1]}
    IN  IF un = {} THEN Ok(TRUE)
        ELSE LET s == Min(un)
                 stop == {o \in RangeBytes(r) : o > s /\ m[o + 1]}
                 e == IF stop = {} THEN r.start + r.size ELSE Min(stop)
             IN  Err([kind |-> "uninit", range |-> alloc_range(s, e - s)])

(***************************************************************************)
(* Collaborators: ProvenanceMap, a list of (offset, provenance) entries    *)
(* sorted by offset; an entry covers PtrSize bytes from its offset.        *)
(***************************************************************************)
Span(off) == off..(off + PtrSize - 1)

\* Some byte lies both in the entry's span and in the range.
EntryOverlaps(e, r) == r.size > 0 /\ e.off < r.start + r.size /\ r.start < e.off + PtrSize
\* Every byte of the entry's span lies in the range.
EntryInside(e, r) == r.start <= e.off /\ e.off + PtrSize <= r.start + r.size

ProvenanceMapNew == <<>>

range_get_ptrs(pm, r) == SelectSeq(pm, LAMBDA e : EntryOverlaps(e, r))

range_empty(pm, r) == range_get_ptrs(pm, r) = <<>>

get_ptr(pm, off) ==
    LET hit == SelectSeq(pm, LAMBDA e : e.off = off)
    IN  IF hit = <<>> THEN None ELSE hit[1].prov

\* The provenance of a single byte.
get(pm, off) ==
    LET hit == range_get_ptrs(pm, alloc_range(off, 1))
    IN  IF hit = <<>> THEN None ELSE hit[1].prov

insert_ptr(pm, off, prov) ==
    SelectSeq(pm, LAMBDA e : e.off < off)
        \o <<[off |-> off, prov |-> prov]>>
        \o SelectSeq(pm, LAMBDA e : e.off > off)

clear(pm, r) ==
    LET hit == range_get_ptrs(pm, r)
        straddling == SelectSeq(hit, LAMBDA e : ~EntryInside(e, r))
    IN  IF hit = <<>> THEN [pm |-> pm, res |-> Ok(TRUE)]
        ELSE IF straddling # <<>> /\ ~destroyAllowed
             THEN [pm |-> pm,
                   res |-> Err([kind |-> "PartialPointerOverwrite", off |-> straddling[1].off])]
             ELSE [pm |-> SelectSeq(pm, LAMBDA e : ~EntryOverlaps(e, r)), res |-> Ok(TRUE)]

(***************************************************************************)
(* Allocation: construction                                                *)
(***************************************************************************)
from_bytes(slice, align, mutability) ==
    [bytes |-> slice,
     provenance |-> ProvenanceMapNew,
     init_mask |-> InitMaskNew(Len(slice), TRUE),
     align |-> align,
     mutability |-> mutability,
     extra |-> "unit"]

\* uninit with the mask built as from_bytes builds it.
uninit_marked_init(size, align, panic_on_fail) ==
    [bytes |-> [i \in 1..size |-> 0],
     provenance |-> ProvenanceMapNew,
     init_mask |-> InitMaskNew(size, TRUE),
     align |-> align,
     mutability |-> "Mut",
     extra |-> "unit"]

\* The allocation uninit returns when the buffer was obtained.
uninit(size, align, panic_on_fail) ==
    [bytes |-> [i \in 1..size |-> 0],
     provenance |-> ProvenanceMapNew,
     init_mask |-> InitMaskNew(size, FALSE),
     align |-> align,
     mutability |-> "Mut",
     extra |-> "unit"]

len(a) == Len(a.bytes)

(***************************************************************************)
(* Allocation: byte accessors.  An operation yields the allocation it      *)
(* leaves behind and its result.                                           *)
(***************************************************************************)
get_bytes_unchecked(a, range) ==
    SubSeq(a.bytes, range.start + 1, range.start + range.size)

\* get_bytes_strip_provenance that looks at the provenance before the mask.
get_bytes_strip_provenance_prov_first(a, range) ==
    LET i == is_range_initialized(a.init_mask, range)
    IN  IF ~offsetIsAddr /\ ~range_empty(a.provenance, range)
        THEN Err([kind |-> "ReadPointerAsBytes"])
        ELSE IF i.tag = "Err"
             THEN Err([kind |-> "InvalidUninitBytes", access |-> range, uninit |-> i.err.range])
             ELSE Ok(get_bytes_unchecked(a, range))

get_bytes_strip_provenance(a, range) ==
    LET i == is_range_initialized(a.init_mask, range)
    IN  IF i.tag = "Err"
        THEN Err([kind |-> "InvalidUninitBytes", access |-> range, uninit |-> i.err.range])
        ELSE IF ~offsetIsAddr /\ ~range_empty(a.provenance, range)
             THEN Err([kind |-> "ReadPointerAsBytes"])
             ELSE Ok(get_bytes_unchecked(a, range))

\* mark_init without its assertion.
mark_init_unchecked(a, range, is_init) ==
    IF range.size = 0 THEN [alloc |-> a, res |-> Ok(TRUE)]
    ELSE [alloc |-> [a EXCEPT !.init_mask = set_range(@, range, is_init)], res |-> Ok(TRUE)]

\* mark_init with the assertion ahead of the test for an empty range.
mark_init_assert_first(a, range, is_init) ==
    IF a.mutability # "Mut" THEN [alloc |-> a, res |-> Panic]
    ELSE IF range.size = 0 THEN [alloc |-> a, res |-> Ok(TRUE)]
    ELSE [alloc |-> [a EXCEPT !.init_mask = set_range(@, range, is_init)], res |-> Ok(TRUE)]

mark_init(a, range, is_init) ==
    IF range.size = 0 THEN [alloc |-> a, res |-> Ok(TRUE)]
    ELSE IF a.mutability # "Mut" THEN [alloc |-> a, res |-> Panic]
    ELSE [alloc |-> [a EXCEPT !.init_mask = set_range(@, range, is_init)], res |-> Ok(TRUE)]

\* get_bytes_mut without the call of provenance.clear.
get_bytes_mut_keep_provenance(a, range) ==
    LET m == mark_init(a, range, TRUE)
    IN  IF m.res.tag = "Panic" THEN m ELSE [alloc |-> m.alloc, res |-> Ok(range)]

get_bytes_mut(a, range) ==
    LET m == mark_init(a, range, TRUE)
    IN  IF m.res.tag = "Panic" THEN m
        ELSE LET c == clear(m.alloc.provenance, range)
             IN  [alloc |-> [m.alloc EXCEPT !.provenance = c.pm],
                  res |-> IF c.res.tag = "Err" THEN c.res ELSE Ok(range)]

get_bytes_mut_ptr(a, range) ==
    LET m == mark_init(a, range, TRUE)
    IN  IF m.res.tag = "Panic" THEN m
        ELSE LET c == clear(m.alloc.provenance, range)
                 a2 == [m.alloc EXCEPT !.provenance = c.pm]
             IN  IF c.res.tag = "Err" THEN [alloc |-> a2, res |-> c.res]
                 ELSE IF ~(range.start + range.size <= len(a2))
                      THEN [alloc |-> a2, res |-> Panic]
                      ELSE [alloc |-> a2, res |-> Ok(range)]

(***************************************************************************)
(* Allocation: reading and writing                                         *)
(***************************************************************************)
\* read_scalar without the final provenance check.
read_scalar_unchecked_fallback(a, range, read_provenance) ==
    IF is_range_initialized(a.init_mask, range).tag = "Err"
    THEN Err([kind |-> "InvalidUninitBytes"])
    ELSE
    LET bits == read_target_uint(endian, get_bytes_unchecked(a, range))
        exact == get_ptr(a.provenance, range.start)
    IN  IF read_provenance /\ range.size # PtrSize THEN Panic
        ELSE IF read_provenance /\ exact # None THEN Ok(from_pointer(exact, bits))
        ELSE Ok(from_uint(bits, range.size))

\* read_scalar that takes the provenance of the first byte for the whole range.
read_scalar_first_byte(a, range, read_provenance) ==
    IF is_range_initialized(a.init_mask, range).tag = "Err"
    THEN Err([kind |-> "InvalidUninitBytes"])
    ELSE
    LET bits == read_target_uint(endian, get_bytes_unchecked(a, range))
        exact == get_ptr(a.provenance, range.start)
    IN  IF read_provenance /\ range.size # PtrSize THEN Panic
        ELSE IF read_provenance /\ exact # None THEN Ok(from_pointer(exact, bits))
        ELSE IF read_provenance /\ offsetIsAddr
             THEN Ok(from_maybe_pointer(get(a.provenance, range.start), bits))
        ELSE IF ~read_provenance /\ offsetIsAddr THEN Ok(from_uint(bits, range.size))
        ELSE IF ~range_empty(a.provenance, range) THEN Err([kind |-> "ReadPointerAsBytes"])
        ELSE Ok(from_uint(bits, range.size))

\* read_scalar with the pointer-size assertion ahead of the init check.
read_scalar_assert_first(a, range, read_provenance) ==
    IF read_provenance /\ range.size # PtrSize THEN Panic
    ELSE IF is_range_initialized(a.init_mask, range).tag = "Err"
    THEN Err([kind |-> "InvalidUninitBytes"])
    ELSE
    LET bits == read_target_uint(endian, get_bytes_unchecked(a, range))
        exact == get_ptr(a.provenance, range.start)
        joined == LET RECURSIVE J(_, _)
                      J(acc, k) == IF k >= range.size THEN acc
                                   ELSE J(join(acc, get(a.provenance, range.start + k)), k + 1)
                  IN  J(get(a.provenance, range.start), 1)
    IN  IF read_provenance /\ exact # None THEN Ok(from_pointer(exact, bits))
        ELSE IF read_provenance /\ offsetIsAddr THEN Ok(from_maybe_pointer(joined, bits))
        ELSE IF ~read_provenance /\ offsetIsAddr THEN Ok(from_uint(bits, range.size))
        ELSE IF ~range_empty(a.provenance, range) THEN Err([kind |-> "ReadPointerAsBytes"])
        ELSE Ok(from_uint(bits, range.size))

\* read_scalar that does not return early when provenance is not asked for.
read_scalar_never_strips(a, range, read_provenance) ==
    IF is_range_initialized(a.init_mask, range).tag = "Err"
    THEN Err([kind |-> "InvalidUninitBytes"])
    ELSE
    LET bits == read_target_uint(endian, get_bytes_unchecked(a, range))
        exact == get_ptr(a.provenance, range.start)
        joined == LET RECURSIVE J(_, _)
                      J(acc, k) == IF k >= range.size THEN acc
                                   ELSE J(join(acc, get(a.provenance, range.start + k)), k + 1)
                  IN  J(get(a.provenance, range.start), 1)
    IN  IF read_provenance /\ range.size # PtrSize THEN Panic
        ELSE IF read_provenance /\ exact # None THEN Ok(from_pointer(exact, bits))
        ELSE IF read_provenance /\ offsetIsAddr THEN Ok(from_maybe_pointer(joined, bits))
        ELSE IF ~range_empty(a.provenance, range) THEN Err([kind |-> "ReadPointerAsBytes"])
        ELSE Ok(from_uint(bits, range.size))

read_scalar(a, range, read_provenance) ==
    IF is_range_initialized(a.init_mask, range).tag = "Err"
    THEN Err([kind |-> "InvalidUninitBytes"])
    ELSE
    LET bits == read_target_uint(endian, get_bytes_unchecked(a, range))
        exact == get_ptr(a.provenance, range.start)
        joined == LET RECURSIVE J(_, _)
                      J(acc, k) == IF k >= range.size THEN acc
                                   ELSE J(join(acc, get(a.provenance, range.start + k)), k + 1)
                  IN  J(get(a.provenance, range.start), 1)
    IN  IF read_provenance /\ range.size # PtrSize THEN Panic
        ELSE IF read_provenance /\ exact # None THEN Ok(from_pointer(exact, bits))
        ELSE IF read_provenance /\ offsetIsAddr THEN Ok(from_maybe_pointer(joined, bits))
        ELSE IF ~read_provenance /\ offsetIsAddr THEN Ok(from_uint(bits, range.size))
        ELSE IF ~range_empty(a.provenance, range) THEN Err([kind |-> "ReadPointerAsBytes"])
        ELSE Ok(from_uint(bits, range.size))

\* PutBytes that stores the new bytes at the start of the buffer.
PutBytesAtStart(bs, range, new) ==
    [i \in 1..Len(bs) |-> IF i <= range.size THEN new[i] ELSE bs[i]]

\* The buffer with the bytes of a range replaced.
PutBytes(bs, range, new) ==
    [i \in 1..Len(bs) |->
        IF (i - 1) \in RangeBytes(range) THEN new[i - range.start] ELSE bs[i]]

\* write_scalar that stores the bytes of a pointer and forgets its provenance.
write_scalar_drop_provenance(a, range, val) ==
    IF a.mutability # "Mut" THEN [alloc |-> a, res |-> Panic]
    ELSE
    LET conv == to_bits_or_ptr_internal(val, range.size)
    IN  IF conv.tag = "Err" THEN [alloc |-> a, res |-> Err([kind |-> conv.err])]
        ELSE
        LET g == get_bytes_mut(a, range)
        IN  IF g.res.tag # "Ok" THEN g
            ELSE [alloc |-> [g.alloc EXCEPT
                                !.bytes = PutBytes(@, range,
                                             write_target_uint(endian, range.size, conv.val.bytes))],
                  res |-> Ok(TRUE)]

\* write_scalar that marks the range initialized and leaves the provenance map
\* as it is before it stores the value.
write_scalar_no_clear(a, range, val) ==
    IF a.mutability # "Mut" THEN [alloc |-> a, res |-> Panic]
    ELSE
    LET conv == to_bits_or_ptr_internal(val, range.size)
    IN  IF conv.tag = "Err" THEN [alloc |-> a, res |-> Err([kind |-> conv.err])]
        ELSE
        LET g == mark_init(a, range, TRUE)
            written == [g.alloc EXCEPT
                          !.bytes = PutBytes(@, range,
                                       write_target_uint(endian, range.size, conv.val.bytes))]
        IN  IF conv.val.provenance = None
            THEN [alloc |-> written, res |-> Ok(TRUE)]
            ELSE IF range.size # PtrSize THEN [alloc |-> written, res |-> Panic]
            ELSE [alloc |-> [written EXCEPT
                                !.provenance = insert_ptr(@, range.start, conv.val.provenance)],
                  res |-> Ok(TRUE)]

\* write_scalar that encodes the value into the buffer before it calls
\* get_bytes_mut.
write_scalar_encode_first(a, range, val) ==
    IF a.mutability # "Mut" THEN [alloc |-> a, res |-> Panic]
    ELSE
    LET conv == to_bits_or_ptr_internal(val, range.size)
    IN  IF conv.tag = "Err" THEN [alloc |-> a, res |-> Err([kind |-> conv.err])]
        ELSE
        LET encoded == [a EXCEPT
                           !.bytes = PutBytes(@, range,
                                        write_target_uint(endian, range.size, conv.val.bytes))]
            g == get_bytes_mut(encoded, range)
        IN  IF g.res.tag # "Ok" THEN g
            ELSE IF conv.val.provenance = None
                 THEN [alloc |-> g.alloc, res |-> Ok(TRUE)]
                 ELSE IF range.size # PtrSize THEN [alloc |-> g.alloc, res |-> Panic]
                 ELSE [alloc |-> [g.alloc EXCEPT
                                     !.provenance = insert_ptr(@, range.start, conv.val.provenance)],
                       res |-> Ok(TRUE)]

write_scalar(a, range, val) ==
    IF a.mutability # "Mut" THEN [alloc |-> a, res |-> Panic]
    ELSE
    LET conv == to_bits_or_ptr_internal(val, range.size)
    IN  IF conv.tag = "Err" THEN [alloc |-> a, res |-> Err([kind |-> conv.err])]
        ELSE
        LET g == get_bytes_mut(a, range)
        IN  IF g.res.tag # "Ok" THEN g
            ELSE
            LET written == [g.alloc EXCEPT
                              !.bytes = PutBytes(@, range,
                                           write_target_uint(endian, range.size, conv.val.bytes))]
            IN  IF conv.val.provenance = None
                THEN [alloc |-> written, res |-> Ok(TRUE)]
                ELSE IF range.size # PtrSize THEN [alloc |-> written, res |-> Panic]
                ELSE [alloc |-> [written EXCEPT
                                    !.provenance = insert_ptr(@, range.start, conv.val.provenance)],
                      res |-> Ok(TRUE)]

\* write_uninit that clears the provenance first and returns its error before
\* touching the mask.
write_uninit_clear_first(a, range) ==
    LET c == clear(a.provenance, range)
    IN  IF c.res.tag = "Err" THEN [alloc |-> a, res |-> c.res]
        ELSE LET m == mark_init([a EXCEPT !.provenance = c.pm], range, FALSE)
             IN  IF m.res.tag = "Panic" THEN [alloc |-> a, res |-> Panic]
                 ELSE [alloc |-> m.alloc, res |-> Ok(TRUE)]

write_uninit(a, range) ==
    LET m == mark_init(a, range, FALSE)
    IN  IF m.res.tag = "Panic" THEN m
        ELSE LET c == clear(m.alloc.provenance, range)
             IN  [alloc |-> [m.alloc EXCEPT !.provenance = c.pm],
                  res |-> IF c.res.tag = "Err" THEN c.res ELSE Ok(TRUE)]

(***************************************************************************)
(* Inputs                                                                  *)
(***************************************************************************)
Bytes == 0..(ByteBase - 1)

RECURSIVE SeqsOfLen(_, _)
SeqsOfLen(S, n) ==
    IF n = 0 THEN {<<>>}
    ELSE {Append(s, x) : s \in SeqsOfLen(S, n - 1), x \in S}

\* The ranges a caller may pass: inside the buffer (bounds are the caller's check).
RangesIn(a) == {alloc_range(s, z) : s \in 0..len(a), z \in 0..len(a)} \cap
               {r \in [start : 0..MaxLen, size : 0..MaxLen] : r.start + r.size <= len(a)}
NonEmptyRangesIn(a) == {r \in RangesIn(a) : r.size > 0}

Scalars ==
    {ScalarInt(b, 1) : b \in 0..(ByteBase - 1)}
        \cup {ScalarInt(b, PtrSize) : b \in 0..(Pow(ByteBase, PtrSize) - 1)}
        \cup {ScalarPtr(p, o) : p \in Provs, o \in 0..(Pow(ByteBase, PtrSize) - 1)}

\* How an operation ended, as recorded in `last`.
Outcome(res) ==
    IF res.tag = "Ok" THEN "Ok"
    ELSE IF res.tag = "Panic" THEN "Panic"
    ELSE res.err.kind

(***************************************************************************)
(* The allocation as a state machine                                       *)
(***************************************************************************)
Init ==
    /\ rng = Idle /\ cp = Idle /\ hs = Idle /\ adj = Idle /\ mk = Idle /\ srv = Idle
    /\ endian \in Endians
    /\ offsetIsAddr \in BOOLEAN
    /\ destroyAllowed \in BOOLEAN
    /\ \/ \E n \in 0..MaxLen, slice \in SeqsOfLen(Bytes, MaxLen), al \in Aligns, m \in Mutabilities :
            /\ alloc = from_bytes(SubSeq(slice, 1, n), al, m)
            /\ last = [op |-> "from_bytes", res |-> "Ok", arg |-> SubSeq(slice, 1, n)]
       \/ \E size \in 0..MaxLen, al \in Aligns, pf \in BOOLEAN :
            /\ alloc = uninit(size, al, pf)
            /\ last = [op |-> "uninit", res |-> "Ok", arg |-> size]

Did(op, res) == last' = [op |-> op, res |-> Outcome(res), arg |-> 0]

\* The (range, value) pairs given to write_scalar: every value at every range of
\* its own size, and two values at the ranges of another size.
MismatchProbes == {ScalarInt(1, 1), ScalarPtr("A", 1)}
WriteInputs(a) ==
    {<<r, v>> \in NonEmptyRangesIn(a) \X Scalars : r.size = v.size \/ v \in MismatchProbes}

Env == UNCHANGED <<endian, offsetIsAddr, destroyAllowed, rng, cp, hs, adj, mk, srv>>

WriteScalar ==
    \E in \in WriteInputs(alloc) :
        LET r == write_scalar(alloc, in[1], in[2])
        IN  alloc' = r.alloc /\ Did("write_scalar", r.res) /\ Env

WriteUninit ==
    \E range \in RangesIn(alloc) :
        LET r == write_uninit(alloc, range)
        IN  alloc' = r.alloc /\ Did("write_uninit", r.res) /\ Env

GetBytesMut ==
    \E range \in RangesIn(alloc) :
        LET r == get_bytes_mut(alloc, range)
        IN  alloc' = r.alloc /\ Did("get_bytes_mut", r.res) /\ Env

GetBytesMutPtr ==
    \E range \in RangesIn(alloc) :
        LET r == get_bytes_mut_ptr(alloc, range)
        IN  alloc' = r.alloc /\ Did("get_bytes_mut_ptr", r.res) /\ Env

\* &self: a read leaves the allocation as it is.
ReadScalar ==
    \E range \in NonEmptyRangesIn(alloc), rp \in BOOLEAN :
        /\ read_scalar(alloc, range, rp).tag \in {"Ok", "Err", "Panic"}
        /\ UNCHANGED <<alloc, last>> /\ Env

GetBytesStripProvenance ==
    \E range \in RangesIn(alloc) :
        /\ get_bytes_strip_provenance(alloc, range).tag \in {"Ok", "Err"}
        /\ UNCHANGED <<alloc, last>> /\ Env

Next ==
    \/ WriteScalar
    \/ WriteUninit
    \/ GetBytesMut
    \/ GetBytesMutPtr
    \/ ReadScalar
    \/ GetBytesStripProvenance

vars == <<alloc, endian, offsetIsAddr, destroyAllowed, last, rng, cp, hs, adj, mk, srv>>

Spec == Init /\ [][Next]_vars

(***************************************************************************)
(* AllocRange::subrange applied to drawn ranges: outer.subrange(inner),    *)
(* then .subrange(innermost) on its result, and outer.subrange of the      *)
(* combined range.                                                         *)
(***************************************************************************)
Unset == [tag |-> "Unset"]

\* Starts and sizes: small ones, and the largest Size.
RangeVals == {0, 1, 2, 3, SizeMax}
RangeInputs == [start : RangeVals, size : RangeVals]

AllocIdle ==
    /\ alloc = Idle /\ endian = Idle /\ offsetIsAddr = Idle
    /\ destroyAllowed = Idle /\ last = Idle

InitRange ==
    /\ AllocIdle /\ cp = Idle /\ hs = Idle /\ adj = Idle /\ mk = Idle /\ srv = Idle
    /\ \E o \in RangeInputs, i \in RangeInputs, m \in RangeInputs :
          rng = [outer |-> o, inner |-> i, innermost |-> m,
                 first |-> Unset, nested |-> Unset, combined |-> Unset]

AllocUnchanged == UNCHANGED <<alloc, endian, offsetIsAddr, destroyAllowed, last>>
RangeOnly == AllocUnchanged /\ UNCHANGED <<cp, hs, adj, mk, srv>>

\* outer.subrange(inner)
SubrangeFirst ==
    /\ rng.first = Unset
    /\ rng' = [rng EXCEPT !.first = subrange(rng.outer, rng.inner)]
    /\ RangeOnly

\* outer.subrange(inner).subrange(innermost)
SubrangeNested ==
    /\ rng.first # Unset /\ rng.nested = Unset
    /\ rng' = [rng EXCEPT !.nested = IF rng.first.tag = "Ok"
                                       THEN subrange(rng.first.range, rng.innermost)
                                       ELSE Panic]
    /\ RangeOnly

\* outer.subrange(alloc_range(inner.start + innermost.start, innermost.size))
SubrangeCombined ==
    /\ rng.combined = Unset
    /\ LET start == SizeAdd(rng.inner.start, rng.innermost.start)
       IN  rng' = [rng EXCEPT !.combined =
                      IF start = Overflow THEN Panic
                      ELSE subrange(rng.outer, alloc_range(start, rng.innermost.size))]
    /\ RangeOnly

NextRange ==
    \/ SubrangeFirst
    \/ SubrangeNested
    \/ SubrangeCombined

SpecRange == InitRange /\ [][NextRange]_vars

(***************************************************************************)
(* Bulk copy.  The prepared copies are computed from the source by the     *)
(* provenance map and the init mask (collaborators); the allocation        *)
(* commits them with provenance_apply_copy and init_mask_apply_copy.       *)
(***************************************************************************)
\* Most copies of the source range placed one after the other.
MaxRepeat == 2

\* The lengths of the maximal runs of equal bits of a sequence of bits.
RECURSIVE RunLengths(_)
RunLengths(bits) ==
    IF bits = <<>> THEN <<>>
    ELSE LET same == {k \in 1..Len(bits) : \A j \in 1..k : bits[j] = bits[1]}
             n == CHOOSE k \in same : \A j \in same : j <= k
         IN  <<n>> \o RunLengths(SubSeq(bits, n + 1, Len(bits)))

\* InitMask::prepare_copy: the first bit of the range and the lengths of its runs.
init_prepare_copy(m, range) ==
    LET bits == SubSeq(m, range.start + 1, range.start + range.size)
    IN  [initial |-> bits[1], ranges |-> RunLengths(bits)]

\* One pass over the runs, from offset j on.
RECURSIVE ApplyRuns(_, _, _, _)
ApplyRuns(m, runs, j, cur) ==
    IF runs = <<>> THEN m
    ELSE ApplyRuns(set_range(m, alloc_range(j, runs[1]), cur), Tail(runs), j + runs[1], ~cur)

\* InitMask::apply_copy
RECURSIVE ApplyRepeats(_, _, _, _)
ApplyRepeats(m, copy, range, k) ==
    IF k = 0 THEN m
    ELSE ApplyRuns(ApplyRepeats(m, copy, range, k - 1), copy.ranges,
                   range.start + (k - 1) * range.size, copy.initial)

init_apply_copy(m, copy, range, repeat) ==
    IF Len(copy.ranges) <= 1
    THEN set_range(m, alloc_range(range.start, range.size * repeat), copy.initial)
    ELSE ApplyRepeats(m, copy, range, repeat)

\* The entries of the source range moved to the i-th destination.
ShiftedEntries(hit, src, dest, i) ==
    [k \in 1..Len(hit) |->
        [off |-> hit[k].off - src.start + dest + i * src.size, prov |-> hit[k].prov]]

RECURSIVE DestPtrs(_, _, _, _)
DestPtrs(hit, src, dest, count) ==
    IF count = 0 THEN <<>>
    ELSE DestPtrs(hit, src, dest, count - 1) \o ShiftedEntries(hit, src, dest, count - 1)

\* ProvenanceMap::prepare_copy
prov_prepare_copy(pm, src, dest, count) ==
    LET hit == range_get_ptrs(pm, src)
        straddling == SelectSeq(hit, LAMBDA e : ~EntryInside(e, src))
    IN  IF straddling # <<>>
        THEN Err([kind |-> "PartialPointerCopy", off |-> straddling[1].off])
        ELSE Ok([dest_ptrs |-> DestPtrs(hit, src, dest, count)])

\* ProvenanceMap::apply_copy: the sorted entries merged into the sorted map.
RECURSIVE MergeSorted(_, _)
MergeSorted(xs, ys) ==
    IF xs = <<>> THEN ys
    ELSE IF ys = <<>> THEN xs
    ELSE IF xs[1].off < ys[1].off THEN <<xs[1]>> \o MergeSorted(Tail(xs), ys)
    ELSE IF ys[1].off < xs[1].off THEN <<ys[1]>> \o MergeSorted(xs, Tail(ys))
    ELSE <<ys[1]>> \o MergeSorted(Tail(xs), Tail(ys))

prov_apply_copy(pm, copy) == MergeSorted(pm, copy.dest_ptrs)

\* init_mask_apply_copy that commits one copy whatever `repeat` says.
init_mask_apply_copy_once(a, copy, range, repeat) ==
    [a EXCEPT !.init_mask = init_apply_copy(@, copy, range, 1)]

provenance_apply_copy(a, copy) ==
    [a EXCEPT !.provenance = prov_apply_copy(@, copy)]

init_mask_apply_copy(a, copy, range, repeat) ==
    [a EXCEPT !.init_mask = init_apply_copy(@, copy, range, repeat)]

\* The reference: one copy of the source range to offset d of the destination,
\* byte by byte and entry by entry.
RECURSIVE InsertAll(_, _, _)
InsertAll(pm, hit, shift) ==
    IF hit = <<>> THEN pm
    ELSE InsertAll(insert_ptr(pm, hit[1].off + shift, hit[1].prov), Tail(hit), shift)

naive_copy(srcA, dstA, src, d) ==
    LET hit == range_get_ptrs(srcA.provenance, src)
        cut == {k \in 1..Len(hit) :
                   hit[k].off < src.start \/ hit[k].off + PtrSize > src.start + src.size}
    IN  IF cut # {}
        THEN [alloc |-> dstA,
              res |-> Err([kind |-> "PartialPointerCopy", off |-> hit[Min(cut)].off])]
        ELSE [alloc |->
                [dstA EXCEPT
                    !.init_mask = [i \in 1..Len(@) |->
                                     IF d <= i - 1 /\ i - 1 < d + src.size
                                     THEN srcA.init_mask[i - d + src.start]
                                     ELSE @[i]],
                    !.provenance = InsertAll(@, hit, d - src.start)],
              res |-> Ok(TRUE)]

\* Source allocations: every mask, and no pointer or one pointer.
CopySources ==
    {[from_bytes([i \in 1..MaxLen |-> 0], 1, "Mut") EXCEPT !.init_mask = m, !.provenance = pm] :
        m \in SeqsOfLen(BOOLEAN, MaxLen),
        pm \in {<<>>} \cup {<<[off |-> o, prov |-> p]>> : o \in 0..(MaxLen - PtrSize), p \in Provs}}

DstLen == 1 + MaxLen * MaxRepeat + PtrSize

\* Destinations: all initialized or all uninitialized, the range to be written
\* clear of provenance, with or without a pointer after it.
CopyDests(dest, total) ==
    {[from_bytes([i \in 1..DstLen |-> 0], 1, "Mut") EXCEPT
          !.init_mask = [i \in 1..DstLen |-> b], !.provenance = pm] :
        b \in BOOLEAN,
        pm \in {<<>>, <<[off |-> DstLen - PtrSize, prov |-> "B"]>>}}

InitCopy ==
    /\ AllocIdle /\ rng = Idle /\ hs = Idle /\ adj = Idle /\ mk = Idle /\ srv = Idle
    /\ \E srcA \in CopySources, size \in 1..MaxLen, start \in 0..MaxLen,
          dest \in 0..1, repeat \in 1..MaxRepeat :
          /\ start + size <= MaxLen
          /\ \E dstA \in CopyDests(dest, size * repeat) :
                cp = [src |-> srcA, range |-> alloc_range(start, size), dest |-> dest,
                      repeat |-> repeat,
                      prepared |-> Unset,
                      bulk |-> dstA, provDone |-> FALSE, initDone |-> FALSE,
                      naive |-> dstA, naiveDone |-> 0, naiveRes |-> Ok(TRUE)]

CopyOnly == AllocUnchanged /\ UNCHANGED <<rng, hs, adj, mk, srv>>

\* provenance().prepare_copy and init_mask().prepare_copy on the source
PrepareCopy ==
    /\ cp.prepared = Unset
    /\ cp' = [cp EXCEPT !.prepared =
                 [tag |-> "Set",
                  prov |-> prov_prepare_copy(cp.src.provenance, cp.range, cp.dest, cp.repeat),
                  init |-> init_prepare_copy(cp.src.init_mask, cp.range)]]
    /\ CopyOnly

ProvenanceApplyCopy ==
    /\ cp.prepared # Unset /\ cp.prepared.prov.tag = "Ok" /\ ~cp.provDone
    /\ cp' = [cp EXCEPT !.bulk = provenance_apply_copy(@, cp.prepared.prov.val),
                        !.provDone = TRUE]
    /\ CopyOnly

InitMaskApplyCopy ==
    /\ cp.prepared # Unset /\ cp.prepared.prov.tag = "Ok" /\ ~cp.initDone
    /\ cp' = [cp EXCEPT !.bulk = init_mask_apply_copy(@, cp.prepared.init,
                                                      alloc_range(cp.dest, cp.range.size),
                                                      cp.repeat),
                        !.initDone = TRUE]
    /\ CopyOnly

\* The next of the `repeat` single copies.
NaiveCopy ==
    /\ cp.naiveDone < cp.repeat /\ cp.naiveRes.tag = "Ok"
    /\ LET r == naive_copy(cp.src, cp.naive, cp.range,
                           cp.dest + cp.naiveDone * cp.range.size)
       IN  cp' = [cp EXCEPT !.naive = r.alloc, !.naiveRes = r.res,
                            !.naiveDone = IF r.res.tag = "Ok" THEN @ + 1 ELSE @]
    /\ CopyOnly

NextCopy ==
    \/ PrepareCopy
    \/ ProvenanceApplyCopy
    \/ InitMaskApplyCopy
    \/ NaiveCopy

SpecCopy == InitCopy /\ [][NextCopy]_vars

(***************************************************************************)
(* Equality and hashing of allocations (interning).                        *)
(***************************************************************************)
MAX_BYTES_TO_HASH == 64
MAX_HASHED_BUFFER_LEN == 2 * MAX_BYTES_TO_HASH

\* Longest buffer drawn, in bytes above MAX_HASHED_BUFFER_LEN.
MaxOver == 2

\* <[u8] as Hash>::hash: the length, then the bytes.
HashSlice(bs) == <<Len(bs)>> \o bs

\* Equality that compares what the hasher is fed.
AllocEqByHashedParts(a, b) ==
    /\ Len(a.bytes) = Len(b.bytes)
    /\ IF Len(a.bytes) > MAX_HASHED_BUFFER_LEN
       THEN /\ SubSeq(a.bytes, 1, MAX_BYTES_TO_HASH) = SubSeq(b.bytes, 1, MAX_BYTES_TO_HASH)
            /\ SubSeq(a.bytes, Len(a.bytes) - MAX_BYTES_TO_HASH + 1, Len(a.bytes))
                  = SubSeq(b.bytes, Len(b.bytes) - MAX_BYTES_TO_HASH + 1, Len(b.bytes))
       ELSE a.bytes = b.bytes
    /\ a.provenance = b.provenance
    /\ a.init_mask = b.init_mask
    /\ a.align = b.align
    /\ a.mutability = b.mutability
    /\ a.extra = b.extra

\* #[derive(PartialEq)] on Allocation: field by field.
AllocEq(a, b) ==
    /\ a.bytes = b.bytes
    /\ a.provenance = b.provenance
    /\ a.init_mask = b.init_mask
    /\ a.align = b.align
    /\ a.mutability = b.mutability
    /\ a.extra = b.extra

\* impl Hash for Allocation: what is written to the hasher, first for the
\* buffer, then for the other fields.
AllocHash(a) ==
    LET byte_count == Len(a.bytes)
    IN  [bytes |-> IF byte_count > MAX_HASHED_BUFFER_LEN
                   THEN <<byte_count>>
                           \o HashSlice(SubSeq(a.bytes, 1, MAX_BYTES_TO_HASH))
                           \o HashSlice(SubSeq(a.bytes, byte_count - MAX_BYTES_TO_HASH + 1,
                                                byte_count))
                   ELSE HashSlice(a.bytes),
         provenance |-> a.provenance,
         init_mask |-> a.init_mask,
         align |-> a.align,
         mutability |-> a.mutability,
         extra |-> a.extra]

\* Buffers around the cutoff: zeros, or zeros with one byte set.
HashLens == (MAX_HASHED_BUFFER_LEN - 1)..(MAX_HASHED_BUFFER_LEN + MaxOver)
MarkedAt(n) == {0, MAX_BYTES_TO_HASH - 1, MAX_BYTES_TO_HASH, n - MAX_BYTES_TO_HASH, n - 1}
HashContents ==
    UNION {{[i \in 1..n |-> 0]} \cup {[i \in 1..n |-> IF i = k + 1 THEN 1 ELSE 0] : k \in MarkedAt(n)} :
              n \in HashLens}
HashAllocs ==
    {from_bytes(c, 1, m) : c \in HashContents, m \in Mutabilities}
        \cup {[from_bytes(c, 1, "Not") EXCEPT !.provenance = <<[off |-> 0, prov |-> "A"]>>] :
                 c \in HashContents}

InitHash ==
    /\ AllocIdle /\ rng = Idle /\ cp = Idle /\ adj = Idle /\ mk = Idle /\ srv = Idle
    /\ \E a \in HashAllocs, b \in HashAllocs :
          hs = [a |-> a, b |-> b, eq |-> Unset, ha |-> Unset, hb |-> Unset,
                done |-> {}]

HashOnly == AllocUnchanged /\ UNCHANGED <<rng, cp, adj, mk, srv>>

\* a == b
Compare ==
    /\ "eq" \notin hs.done
    /\ hs' = [hs EXCEPT !.eq = AllocEq(hs.a, hs.b), !.done = @ \cup {"eq"}]
    /\ HashOnly

\* a.hash(state)
HashFirst ==
    /\ "ha" \notin hs.done
    /\ hs' = [hs EXCEPT !.ha = AllocHash(hs.a), !.done = @ \cup {"ha"}]
    /\ HashOnly

\* b.hash(state)
HashSecond ==
    /\ "hb" \notin hs.done
    /\ hs' = [hs EXCEPT !.hb = AllocHash(hs.b), !.done = @ \cup {"hb"}]
    /\ HashOnly

NextHash ==
    \/ Compare
    \/ HashFirst
    \/ HashSecond

SpecHash == InitHash /\ [][NextHash]_vars

(***************************************************************************)
(* adjust_from_tcx: an allocation of the compiler, whose provenance is an  *)
(* AllocId, converted for a machine with its own provenance and extra.     *)
(***************************************************************************)
\* Most pointers stored in the allocation that is converted.
MaxPtrs == 3
AdjLen == MaxPtrs * PtrSize

Pointer(prov, offset) == [prov |-> prov, offset |-> offset]

\* The provenance the machine gives to an AllocId.
MachineProv(alloc_id) == [machine |-> alloc_id]

\* adjust_ptr, the caller's closure: it fails on the pointers of f.fail and maps
\* every other pointer to the machine's provenance and an offset moved by f.add.
adjust_ptr(f, ptr) ==
    IF ptr \in f.fail
    THEN Err([kind |-> "remap", ptr |-> ptr])
    ELSE Ok(Pointer(MachineProv(ptr.prov), (ptr.offset + f.add) % Pow(ByteBase, PtrSize)))

\* Reencode that leaves the bytes as they are.
ReencodeNothing(bytes, offset, ptr_offset) == bytes

\* The bytes with the pointer at `offset` re-encoded: write_target_uint into
\* &mut bytes[idx..idx + ptr_size].
Reencode(bytes, offset, ptr_offset) ==
    PutBytes(bytes, alloc_range(offset, PtrSize), write_target_uint(endian, PtrSize, ptr_offset))

\* The loop of adjust_from_tcx that, when adjust_ptr fails, still calls it on the
\* entries that follow before it returns the error.
RECURSIVE AdjustLoopNoStop(_, _, _, _, _)
AdjustLoopNoStop(ptrs, bytes, new_provenance, calls, f) ==
    IF ptrs = <<>>
    THEN [res |-> Ok([bytes |-> bytes, new_provenance |-> new_provenance]), calls |-> calls]
    ELSE LET offset == ptrs[1].off
             bits == read_target_uint(endian, SubSeq(bytes, offset + 1, offset + PtrSize))
             ptr == Pointer(ptrs[1].prov, bits)
             r == adjust_ptr(f, ptr)
         IN  IF r.tag = "Err"
             THEN [res |-> r,
                   calls |-> AdjustLoopNoStop(Tail(ptrs), bytes, new_provenance,
                                              Append(calls, ptr), f).calls]
             ELSE AdjustLoopNoStop(Tail(ptrs), Reencode(bytes, offset, r.val.offset),
                                   Append(new_provenance, [off |-> offset, prov |-> r.val.prov]),
                                   Append(calls, ptr), f)

\* The loop of adjust_from_tcx over self.provenance.ptrs(): the bytes as
\* re-encoded so far, the entries as remapped so far and the pointers adjust_ptr
\* was called with.
RECURSIVE AdjustLoop(_, _, _, _, _)
AdjustLoop(ptrs, bytes, new_provenance, calls, f) ==
    IF ptrs = <<>>
    THEN [res |-> Ok([bytes |-> bytes, new_provenance |-> new_provenance]), calls |-> calls]
    ELSE LET offset == ptrs[1].off
             bits == read_target_uint(endian, SubSeq(bytes, offset + 1, offset + PtrSize))
             ptr == Pointer(ptrs[1].prov, bits)
             r == adjust_ptr(f, ptr)
         IN  IF r.tag = "Err"
             THEN [res |-> r, calls |-> Append(calls, ptr)]
             ELSE AdjustLoop(Tail(ptrs), Reencode(bytes, offset, r.val.offset),
                             Append(new_provenance, [off |-> offset, prov |-> r.val.prov]),
                             Append(calls, ptr), f)

\* adjust_from_tcx(self, cx, extra, adjust_ptr): the result, and the calls of
\* adjust_ptr in order.  self is taken by value: after the call the caller
\* holds the result and nothing else.
adjust_from_tcx(self, extra, f) ==
    LET l == AdjustLoop(self.provenance, self.bytes, <<>>, <<>>, f)
    IN  [res |-> IF l.res.tag = "Err" THEN l.res
                 ELSE Ok([bytes |-> l.res.val.bytes,
                          provenance |-> l.res.val.new_provenance,
                          init_mask |-> self.init_mask,
                          align |-> self.align,
                          mutability |-> self.mutability,
                          extra |-> extra]),
         calls |-> l.calls]

\* The entry lists of an allocation of AdjLen bytes: sorted, spans disjoint.
RECURSIVE PtrLists(_)
PtrLists(from) ==
    {<<>>} \cup
    UNION {{<<[off |-> o, prov |-> p]>> \o rest : rest \in PtrLists(o + PtrSize)} :
              o \in from..(AdjLen - PtrSize), p \in Provs}

TcxAllocs ==
    {[from_bytes(bs, 1, m) EXCEPT !.provenance = pm] :
        bs \in SeqsOfLen(Bytes, AdjLen), m \in Mutabilities, pm \in PtrLists(0)}

\* The closures: failing on no pointer or on one pointer.
Remaps ==
    {[fail |-> fs, add |-> d] :
        fs \in {{}} \cup {{Pointer(p, o)} : p \in Provs, o \in 0..(Pow(ByteBase, PtrSize) - 1)},
        d \in 0..1}

InitAdjust ==
    /\ alloc = Idle /\ offsetIsAddr = Idle /\ destroyAllowed = Idle /\ last = Idle
    /\ rng = Idle /\ cp = Idle /\ hs = Idle /\ mk = Idle /\ srv = Idle
    /\ endian \in Endians
    /\ \E self \in TcxAllocs, f \in Remaps :
          adj = [self |-> self, f |-> f, held |-> {self}, out |-> Unset]

\* The call: self moves into adjust_from_tcx, the caller is left with what it
\* returns.
AdjustFromTcx ==
    /\ adj.out = Unset
    /\ LET r == adjust_from_tcx(adj.self, "machine", adj.f)
       IN  adj' = [adj EXCEPT
                      !.out = [tag |-> "Done", res |-> r.res, calls |-> r.calls],
                      !.held = IF r.res.tag = "Ok" THEN {r.res.val} ELSE {}]
    /\ UNCHANGED <<alloc, endian, offsetIsAddr, destroyAllowed, last, rng, cp, hs, mk, srv>>

NextAdjust ==
    \/ AdjustFromTcx

SpecAdjust == InitAdjust /\ [][NextAdjust]_vars

(***************************************************************************)
(* Allocation::uninit as a call that may fail: the buffer is requested     *)
(* from the host, which grants it or not.                                  *)
(***************************************************************************)
\* Box::<[u8]>::try_new_zeroed_slice(size): `obtained` is the host's answer.
try_new_zeroed_slice(size, obtained) ==
    IF obtained THEN Ok([i \in 1..size |-> 0]) ELSE Err("AllocError")

\* uninit that returns the error whatever panic_on_fail says.
uninit_never_panics(size, align, panic_on_fail, obtained) ==
    IF try_new_zeroed_slice(size, obtained).tag = "Err"
    THEN Err([kind |-> "MemoryExhausted"])
    ELSE Ok(uninit(size, align, panic_on_fail))

\* Allocation::uninit, the whole call: InterpResult<Self>, or a panic.
uninit_call(size, align, panic_on_fail, obtained) ==
    IF try_new_zeroed_slice(size, obtained).tag = "Err"
    THEN IF panic_on_fail THEN Panic ELSE Err([kind |-> "MemoryExhausted"])
    ELSE Ok(uninit(size, align, panic_on_fail))

InitUninit ==
    /\ AllocIdle /\ rng = Idle /\ cp = Idle /\ hs = Idle /\ adj = Idle /\ srv = Idle
    /\ \E size \in 0..SizeMax, al \in Aligns, pf \in BOOLEAN, ob \in BOOLEAN :
          mk = [size |-> size, align |-> al, panic_on_fail |-> pf, obtained |-> ob,
                out |-> Unset]

Uninit ==
    /\ mk.out = Unset
    /\ mk' = [mk EXCEPT !.out = [tag |-> "Done",
                                 res |-> uninit_call(mk.size, mk.align, mk.panic_on_fail,
                                                     mk.obtained)]]
    /\ AllocUnchanged /\ UNCHANGED <<rng, cp, hs, adj, srv>>

NextUninit ==
    \/ Uninit

SpecUninit == InitUninit /\ [][NextUninit]_vars

(***************************************************************************)
(* The allocation with room for several pointers.  The values written are  *)
(* zero and pointers with offset zero, so that every byte stays zero and   *)
(* the states differ in the init mask and the provenance map only.         *)
(***************************************************************************)
ProvLen == MaxPtrs * PtrSize

RangesWithin(n) == {r \in [start : 0..n, size : 0..n] : r.start + r.size <= n}

ZeroScalars ==
    {ScalarInt(0, 1), ScalarInt(0, PtrSize)} \cup {ScalarPtr(p, 0) : p \in Provs}

InitProv ==
    /\ rng = Idle /\ cp = Idle /\ hs = Idle /\ adj = Idle /\ mk = Idle /\ srv = Idle
    /\ endian = "Little"
    /\ offsetIsAddr \in BOOLEAN
    /\ destroyAllowed \in BOOLEAN
    /\ \/ /\ alloc = from_bytes([i \in 1..ProvLen |-> 0], 1, "Mut")
          /\ last = [op |-> "from_bytes", res |-> "Ok", arg |-> [i \in 1..ProvLen |-> 0]]
       \/ /\ alloc = uninit(ProvLen, 1, TRUE)
          /\ last = [op |-> "uninit", res |-> "Ok", arg |-> ProvLen]

WriteZeroOrPointer ==
    \E range \in RangesWithin(ProvLen), val \in ZeroScalars :
        /\ range.size = val.size
        /\ LET r == write_scalar(alloc, range, val)
           IN  alloc' = r.alloc /\ Did("write_scalar", r.res) /\ Env

WriteUninitWithin ==
    \E range \in RangesWithin(ProvLen) :
        LET r == write_uninit(alloc, range)
        IN  alloc' = r.alloc /\ Did("write_uninit", r.res) /\ Env

GetBytesMutWithin ==
    \E range \in RangesWithin(ProvLen) :
        LET r == get_bytes_mut(alloc, range)
        IN  alloc' = r.alloc /\ Did("get_bytes_mut", r.res) /\ Env

NextProv ==
    \/ WriteZeroOrPointer
    \/ WriteUninitWithin
    \/ GetBytesMutWithin

SpecProv == InitProv /\ [][NextProv]_vars

(***************************************************************************)
(* read_scalar as a function of the allocation: one read of an allocation  *)
(* with room for two pointers, in any state the writes can leave it in.    *)
(***************************************************************************)
ReadLen == 2 * PtrSize

\* Entry lists with disjoint spans inside ReadLen bytes, from offset `from` on.
RECURSIVE ReadPtrLists(_)
ReadPtrLists(from) ==
    {<<>>} \cup
    UNION {{<<[off |-> o, prov |-> p]>> \o rest : rest \in ReadPtrLists(o + PtrSize)} :
              o \in from..(ReadLen - PtrSize), p \in Provs}

\* Every byte under an entry is initialized; the other bytes are or are not.
MasksOver(pm) ==
    {x \in SeqsOfLen(BOOLEAN, ReadLen) :
        \A i \in 1..Len(pm) : \A o \in Span(pm[i].off) : x[o + 1]}
ReadAllocs ==
    UNION {{[from_bytes(bs, 1, "Mut") EXCEPT !.provenance = pm, !.init_mask = m] :
               bs \in SeqsOfLen(Bytes, ReadLen), m \in MasksOver(pm)} :
              pm \in ReadPtrLists(0)}

InitRead ==
    /\ rng = Idle /\ cp = Idle /\ hs = Idle /\ adj = Idle /\ mk = Idle /\ srv = Idle
    /\ destroyAllowed = Idle
    /\ endian \in Endians
    /\ offsetIsAddr \in BOOLEAN
    /\ alloc \in ReadAllocs
    /\ \E range \in {r \in RangesWithin(ReadLen) : r.size > 0}, rp \in BOOLEAN :
          last = [op |-> "none", range |-> range, read_provenance |-> rp, res |-> Unset]

ReadScalarOnce ==
    /\ last.op = "none"
    /\ last' = [last EXCEPT !.op = "read_scalar",
                            !.res = read_scalar(alloc, last.range, last.read_provenance)]
    /\ UNCHANGED <<alloc, endian, offsetIsAddr, destroyAllowed, rng, cp, hs, adj, mk, srv>>

NextRead ==
    \/ ReadScalarOnce

SpecRead == InitRead /\ [][NextRead]_vars

(***************************************************************************)
(* Properties of the allocation.  A property about "an operation followed  *)
(* by another" is stated over every reachable allocation by applying the   *)
(* operations to it.                                                       *)
(***************************************************************************)
Entries(a) == {a.provenance[i] : i \in 1..Len(a.provenance)}
PtrRangesIn(a) == {r \in RangesIn(a) : r.size = PtrSize}
\* The non-empty proper sub-ranges of a range.
ProperSubRanges(R) ==
    {r \in [start : 0..MaxLen, size : 1..MaxLen] :
        /\ R.start <= r.start
        /\ r.start + r.size <= R.start + R.size
        /\ r.size < R.size}
Disjoint(r1, r2) == RangeBytes(r1) \cap RangeBytes(r2) = {}
InvalidUninit == Err([kind |-> "InvalidUninitBytes"])
ReadPointerAsBytes == Err([kind |-> "ReadPointerAsBytes"])

\* C1: every provenance entry covers only bytes that the init mask marks
\* initialized, in every state reached by write_scalar, write_uninit,
\* get_bytes_mut and get_bytes_mut_ptr calls, the failing ones included.
C1_ProvenanceOnlyOnInitBytes ==
    \A e \in Entries(alloc) : \A o \in Span(e.off) : o < len(alloc) /\ alloc.init_mask[o + 1]

\* The mutating operations that do not touch the range R.
UntouchedBy(a, R) ==
    {a}
        \cup {write_uninit(a, r).alloc : r \in {x \in RangesIn(a) : Disjoint(x, R)}}
        \cup {get_bytes_mut(a, r).alloc : r \in {x \in RangesIn(a) : Disjoint(x, R)}}
        \cup {write_scalar(a, in[1], in[2]).alloc :
                in \in {x \in WriteInputs(a) : Disjoint(x[1], R)}}

\* The statement of C2 as written: for every range R and scalar V, a successful
\* write_scalar(R, V) followed by read_scalar(R, TRUE) returns V.
C2_RoundTripAnyRange ==
    \A R \in NonEmptyRangesIn(alloc), V \in Scalars :
        LET w == write_scalar(alloc, R, V)
        IN  w.res.tag = "Ok" => read_scalar(w.alloc, R, TRUE) = Ok(V)

\* C2 (amended): for every pointer-width range R and scalar V, a successful
\* write_scalar(R, V) followed by read_scalar(R, TRUE) returns V, also after
\* operations on ranges disjoint from R; on a range of another size
\* read_scalar(R, TRUE) aborts on its pointer-size assertion.
C2_RoundTripPointerWidth ==
    \A R \in NonEmptyRangesIn(alloc), V \in Scalars :
        LET w == write_scalar(alloc, R, V)
        IN  w.res.tag = "Ok" =>
                \A a2 \in UntouchedBy(w.alloc, R) :
                    read_scalar(a2, R, TRUE) = IF R.size = PtrSize THEN Ok(V) ELSE Panic

C2_Witness ==
    /\ last.op = "write_scalar" /\ last.res = "Ok"
    /\ \E R \in PtrRangesIn(alloc), p \in Provs :
          read_scalar(alloc, R, TRUE) = Ok(ScalarPtr(p, 1))

\* C3: with a provenance kind whose offsets are not addresses, a read as plain
\* bytes (get_bytes_strip_provenance, read_scalar without provenance) of a
\* non-empty, fully initialized range fails with ReadPointerAsBytes exactly when
\* the span of some provenance entry shares a byte with the range, and returns
\* the bytes (the integer they encode) otherwise; so after a pointer is written
\* into R, such a read of any non-empty proper sub-range of R fails.
C3_PlainReadOfPointerBytes ==
    ~offsetIsAddr =>
        /\ \A r \in NonEmptyRangesIn(alloc) :
              (\A o \in RangeBytes(r) : alloc.init_mask[o + 1]) =>
                  LET shared == \E e \in Entries(alloc) : Span(e.off) \cap RangeBytes(r) # {}
                      raw == [i \in 1..r.size |-> alloc.bytes[r.start + i]]
                  IN  /\ get_bytes_strip_provenance(alloc, r) =
                            IF shared THEN ReadPointerAsBytes ELSE Ok(raw)
                      /\ read_scalar(alloc, r, FALSE) =
                            IF shared THEN ReadPointerAsBytes
                            ELSE Ok(ScalarInt(read_target_uint(endian, raw), r.size))
        /\ \A R \in PtrRangesIn(alloc), V \in Scalars :
              LET w == write_scalar(alloc, R, V)
              IN  (V.tag = "Ptr" /\ w.res.tag = "Ok") =>
                      \A r \in ProperSubRanges(R) :
                          /\ get_bytes_strip_provenance(w.alloc, r) = ReadPointerAsBytes
                          /\ read_scalar(w.alloc, r, FALSE) = ReadPointerAsBytes

C3_Witness ==
    /\ ~offsetIsAddr
    /\ last.op = "write_scalar" /\ last.res = "Ok"
    /\ \E e \in Entries(alloc) :
          /\ read_scalar(alloc, alloc_range(e.off + 1, 1), FALSE) = ReadPointerAsBytes
          /\ get_bytes_strip_provenance(alloc, alloc_range(e.off, 1)) = ReadPointerAsBytes

NoProvenanceOn(a, off) == \A o \in Span(off) : get(a.provenance, o) = None

\* After the region of a former entry is overwritten in full with an integer, it
\* reads back as that integer, with or without provenance, and as plain bytes.
ReadsPlainAfterFullOverwrite(a, off) ==
    \A v \in 0..(Pow(ByteBase, PtrSize) - 1) :
        LET R == alloc_range(off, PtrSize)
            f == write_scalar(a, R, ScalarInt(v, PtrSize))
        IN  /\ f.res.tag = "Ok"
            /\ NoProvenanceOn(f.alloc, off)
            /\ read_scalar(f.alloc, R, TRUE) = Ok(ScalarInt(v, PtrSize))
            /\ read_scalar(f.alloc, R, FALSE) = Ok(ScalarInt(v, PtrSize))
            /\ get_bytes_strip_provenance(f.alloc, R).tag = "Ok"

\* P holds of every way to overwrite the single byte at offset b.
ForEachByteOverwrite(a, b, P(_)) ==
    /\ P(get_bytes_mut(a, alloc_range(b, 1)))
    /\ P(get_bytes_mut_ptr(a, alloc_range(b, 1)))
    /\ \A v \in Bytes : P(write_scalar(a, alloc_range(b, 1), ScalarInt(v, 1)))

\* The statement of C4 as written: overwriting one byte inside the region of a
\* provenance entry destroys the entry.
C4_ByteOverwriteAlwaysDestroys ==
    \A e \in Entries(alloc) : \A b \in Span(e.off) :
        ForEachByteOverwrite(alloc, b, LAMBDA w : NoProvenanceOn(w.alloc, e.off))

\* C4 (amended): a successful overwrite of one byte inside the region of a
\* provenance entry destroys the entry entirely, no byte of the region keeps
\* provenance; an overwrite rejected with PartialPointerOverwrite leaves the
\* entry whole.  Either way, once the region is then overwritten in full with
\* an integer, it reads back as that integer without error and never as the
\* old pointer.
C4_ByteOverwriteDestroysOrFails ==
    \A e \in Entries(alloc) : \A b \in Span(e.off) :
        ForEachByteOverwrite(alloc, b, LAMBDA w :
            /\ w.res.tag \in {"Ok", "Err"}
            /\ w.res.tag = "Ok" => NoProvenanceOn(w.alloc, e.off)
            /\ w.res.tag = "Err" =>
                  /\ w.res.err = [kind |-> "PartialPointerOverwrite", off |-> e.off]
                  /\ w.alloc.provenance = alloc.provenance
            /\ ReadsPlainAfterFullOverwrite(w.alloc, e.off))

C4_Witness ==
    /\ last.op = "write_scalar" /\ last.res = "Ok"
    /\ \E e \in Entries(alloc) :
          LET w == write_scalar(alloc, alloc_range(e.off + 1, 1), ScalarInt(1, 1))
          IN  /\ w.res.tag = "Ok"
              /\ w.alloc.provenance = <<>>
              /\ ReadsPlainAfterFullOverwrite(w.alloc, e.off)

\* C5: once a pointer written over the pointer-width range R reads back as that
\* pointer, write_uninit on a non-empty proper sub-range of R makes read_scalar
\* over R fail with InvalidUninitBytes, whether write_uninit returned success or
\* PartialPointerOverwrite.
C5_UninitInsidePointer ==
    \A R \in PtrRangesIn(alloc), V \in Scalars :
        LET w == write_scalar(alloc, R, V)
        IN  (V.tag = "Ptr" /\ w.res.tag = "Ok" /\ read_scalar(w.alloc, R, TRUE) = Ok(V)) =>
                \A r \in ProperSubRanges(R) :
                    LET u == write_uninit(w.alloc, r)
                    IN  /\ u.res.tag \in {"Ok", "Err"}
                        /\ \A rp \in BOOLEAN : read_scalar(u.alloc, R, rp) = InvalidUninit

C5_Witness ==
    /\ last.op = "write_uninit" /\ last.res = "PartialPointerOverwrite"
    /\ \E e \in Entries(alloc) :
          read_scalar(alloc, alloc_range(e.off, PtrSize), TRUE) = InvalidUninit

\* C6: a fresh uninit(size, ..) allocation has `size` bytes, an empty provenance
\* map and no non-empty range that is_range_initialized accepts; a fresh
\* from_bytes(content, ..) allocation has the length of content, an empty
\* provenance map and every range accepted by is_range_initialized.
C6_FreshAllocations ==
    /\ last.op = "uninit" =>
          /\ len(alloc) = last.arg
          /\ alloc.provenance = <<>>
          /\ \A r \in NonEmptyRangesIn(alloc) :
                is_range_initialized(alloc.init_mask, r).tag = "Err"
    /\ last.op = "from_bytes" =>
          /\ len(alloc) = Len(last.arg)
          /\ alloc.bytes = last.arg
          /\ alloc.provenance = <<>>
          /\ \A r \in RangesIn(alloc) :
                is_range_initialized(alloc.init_mask, r) = Ok(TRUE)

C6_Witness ==
    /\ last.op = "uninit"
    /\ len(alloc) = MaxLen
    /\ is_range_initialized(alloc.init_mask, alloc_range(0, MaxLen)).tag = "Err"

\* The uninitialized bytes of a range, and the first run of them.
UninitIn(a, r) == {o \in RangeBytes(r) : ~a.init_mask[o + 1]}
FirstUninitRun(a, r) ==
    LET s == Min(UninitIn(a, r))
        run == {o \in RangeBytes(r) : o >= s /\ \A q \in s..o : q \in UninitIn(a, r)}
    IN  alloc_range(s, Cardinality(run))
SharesByte(a, r) == \E e \in Entries(a) : Span(e.off) \cap RangeBytes(r) # {}

\* C13: get_bytes_strip_provenance(range) returns InvalidUninitBytes with the
\* requested range and the first run of uninitialized bytes in it whenever a
\* byte of the range is uninitialized, also when a provenance entry shares a
\* byte with the range; ReadPointerAsBytes only when the range is initialized,
\* offsets are not addresses and an entry shares a byte with the range; and the
\* bytes of the range in every other case.
C13_StripChecksInitFirst ==
    \A r \in RangesIn(alloc) :
        LET res == get_bytes_strip_provenance(alloc, r)
        IN  IF UninitIn(alloc, r) # {}
            THEN /\ res.tag = "Err"
                 /\ res.err = [kind |-> "InvalidUninitBytes", access |-> r,
                               uninit |-> FirstUninitRun(alloc, r)]
            ELSE IF ~offsetIsAddr /\ SharesByte(alloc, r)
                 THEN /\ res.tag = "Err"
                      /\ res.err.kind = "ReadPointerAsBytes"
                 ELSE res = Ok([i \in 1..r.size |-> alloc.bytes[r.start + i]])

\* A pointer was stored in front of a byte that is still uninitialized: a read
\* of both reports the uninitialized byte.
C13_Witness ==
    /\ ~offsetIsAddr
    /\ last.op = "write_scalar" /\ last.res = "Ok"
    /\ \E r \in RangesIn(alloc) :
          /\ SharesByte(alloc, r)
          /\ UninitIn(alloc, r) # {}
          /\ get_bytes_strip_provenance(alloc, r).tag = "Err"
          /\ get_bytes_strip_provenance(alloc, r).err.kind = "InvalidUninitBytes"

\* The call aborted and left the allocation as it was.
AbortedUnchanged(w, a) == w.res = Panic /\ w.alloc = a

\* C14: on an allocation whose mutability is Not, write_scalar with any range and
\* value, and get_bytes_mut, get_bytes_mut_ptr and write_uninit with a non-empty
\* range, abort (they do not return an AllocError) and leave bytes, init mask
\* and provenance as they were.
C14_ImmutableAborts ==
    alloc.mutability = "Not" =>
        /\ \A r \in RangesIn(alloc), V \in Scalars :
              AbortedUnchanged(write_scalar(alloc, r, V), alloc)
        /\ \A r \in NonEmptyRangesIn(alloc) :
              /\ AbortedUnchanged(get_bytes_mut(alloc, r), alloc)
              /\ AbortedUnchanged(get_bytes_mut_ptr(alloc, r), alloc)
              /\ AbortedUnchanged(write_uninit(alloc, r), alloc)

C14_Witness ==
    /\ alloc.mutability = "Not"
    /\ len(alloc) = MaxLen
    /\ last.op = "write_uninit" /\ last.res = "Panic"
    /\ alloc.init_mask = [i \in 1..MaxLen |-> TRUE]

RawBytes(a, r) == [i \in 1..r.size |-> a.bytes[r.start + i]]
IsReadPointerAsBytes(res) == res.tag = "Err" /\ res.err.kind = "ReadPointerAsBytes"

\* C16: with a provenance kind whose offsets are addresses, read_scalar without
\* provenance of a non-empty, fully initialized range returns the integer that
\* the bytes of the range encode, get_bytes_strip_provenance returns the bytes,
\* and neither returns ReadPointerAsBytes for any range, whatever entries share
\* bytes with it.
C16_OffsetIsAddrStripsProvenance ==
    offsetIsAddr =>
        /\ \A r \in NonEmptyRangesIn(alloc) :
              /\ ~IsReadPointerAsBytes(read_scalar(alloc, r, FALSE))
              /\ UninitIn(alloc, r) = {} =>
                    /\ read_scalar(alloc, r, FALSE) =
                          Ok(ScalarInt(read_target_uint(endian, RawBytes(alloc, r)), r.size))
                    /\ get_bytes_strip_provenance(alloc, r) = Ok(RawBytes(alloc, r))
        /\ \A r \in RangesIn(alloc) :
              ~IsReadPointerAsBytes(get_bytes_strip_provenance(alloc, r))

\* A stored pointer with a non-zero offset is read as plain bytes, in part and
\* in whole.
C16_Witness ==
    /\ offsetIsAddr
    /\ last.op = "write_scalar" /\ last.res = "Ok"
    /\ \E e \in Entries(alloc) :
          /\ read_scalar(alloc, alloc_range(e.off, PtrSize), FALSE).tag = "Ok"
          /\ read_scalar(alloc, alloc_range(e.off, PtrSize), FALSE).val.bits > 0
          /\ read_scalar(alloc, alloc_range(e.off + 1, 1), FALSE).tag = "Ok"
          /\ get_bytes_strip_provenance(alloc, alloc_range(e.off, 1)).tag = "Ok"

\* C17: read_scalar of a range with an uninitialized byte returns
\* InvalidUninitBytes, with and without provenance asked for, whatever the
\* provenance kind, whatever entries share bytes with the range, and also when
\* provenance is asked for and the size of the range is not the pointer width:
\* the pointer-size assertion comes after the init check.
C17_ReadRejectsUninitFirst ==
    \A r \in NonEmptyRangesIn(alloc) :
        UninitIn(alloc, r) # {} =>
            \A rp \in BOOLEAN : read_scalar(alloc, r, rp) = InvalidUninit

\* A pointer lies in front of an uninitialized byte; a read with provenance of
\* all the bytes, more than a pointer's width, is rejected as uninitialized.
C17_Witness ==
    /\ last.op = "write_scalar" /\ last.res = "Ok"
    /\ \E r \in NonEmptyRangesIn(alloc) :
          /\ r.size # PtrSize
          /\ SharesByte(alloc, r)
          /\ UninitIn(alloc, r) # {}
          /\ read_scalar(alloc, r, TRUE) = InvalidUninit

\* C18: when write_scalar returns an AllocError, ScalarSizeMismatch or the
\* PartialPointerOverwrite of the provenance clearing, no byte of the buffer has
\* changed and the provenance map has no new entry.  A size mismatch leaves the
\* whole allocation as it was; a partial overwrite is reported after the range
\* was marked initialized and before the value is encoded.
C18_FailedWriteKeepsBytes ==
    \A r \in NonEmptyRangesIn(alloc), V \in Scalars :
        LET w == write_scalar(alloc, r, V)
        IN  w.res.tag = "Err" =>
                /\ w.alloc.bytes = alloc.bytes
                /\ Entries(w.alloc) \subseteq Entries(alloc)
                /\ w.res.err.kind \in {"ScalarSizeMismatch", "PartialPointerOverwrite"}
                /\ w.res.err.kind = "ScalarSizeMismatch" => w.alloc = alloc
                /\ w.res.err.kind = "PartialPointerOverwrite" =>
                      w.alloc = [alloc EXCEPT !.init_mask = set_range(@, r, TRUE)]

\* A write was refused because it covered a stored pointer in part, and the
\* pointer is still there.
C18_Witness ==
    /\ last.op = "write_scalar" /\ last.res = "PartialPointerOverwrite"
    /\ alloc.provenance # <<>>
    /\ alloc.bytes # [i \in 1..len(alloc) |-> 0]

\* The entries whose span shares no byte with the range.
EntriesOff(a, r) == {e \in Entries(a) : Span(e.off) \cap RangeBytes(r) = {}}

\* The successful call left every byte and every init bit outside R, and every
\* entry whose span shares no byte with R, as they were in a.
FrameKept(w, a, R) ==
    w.res.tag = "Ok" =>
        /\ \A i \in 1..len(a) :
              (i - 1) \notin RangeBytes(R) =>
                  /\ w.alloc.bytes[i] = a.bytes[i]
                  /\ w.alloc.init_mask[i] = a.init_mask[i]
        /\ EntriesOff(w.alloc, R) = EntriesOff(a, R)

\* The call, successful or not, left length, alignment and mutability alone.
ShapeKept(w, a) ==
    /\ len(w.alloc) = len(a)
    /\ Len(w.alloc.init_mask) = Len(a.init_mask)
    /\ w.alloc.align = a.align
    /\ w.alloc.mutability = a.mutability

\* C22: a successful write_scalar(R, V), get_bytes_mut(R) or write_uninit(R)
\* leaves every byte outside R, every init bit outside R and every provenance
\* entry whose span shares no byte with R unchanged; no write, successful or
\* not, changes the length of the buffer, the alignment or the mutability.  The
\* reads (read_scalar, get_bytes_strip_provenance, get_bytes_unchecked) take
\* the allocation by shared reference and yield a value only.
C22_WritesKeepTheirFrame ==
    /\ \A R \in RangesIn(alloc) :
          /\ FrameKept(get_bytes_mut(alloc, R), alloc, R)
          /\ ShapeKept(get_bytes_mut(alloc, R), alloc)
          /\ FrameKept(get_bytes_mut_ptr(alloc, R), alloc, R)
          /\ ShapeKept(get_bytes_mut_ptr(alloc, R), alloc)
          /\ FrameKept(write_uninit(alloc, R), alloc, R)
          /\ ShapeKept(write_uninit(alloc, R), alloc)
    /\ \A R \in NonEmptyRangesIn(alloc), V \in Scalars :
          /\ FrameKept(write_scalar(alloc, R, V), alloc, R)
          /\ ShapeKept(write_scalar(alloc, R, V), alloc)

\* A pointer and a byte next to it: writing the byte again changes neither the
\* pointer's bytes nor its entry.
C22_Witness ==
    /\ len(alloc) = MaxLen
    /\ alloc.provenance = <<[off |-> 0, prov |-> "A"]>>
    /\ alloc.bytes[1] # 0
    /\ last.op = "write_scalar" /\ last.res = "Ok"
    /\ LET w == write_scalar(alloc, alloc_range(PtrSize, 1), ScalarInt(1, 1))
       IN  /\ w.res.tag = "Ok"
           /\ w.alloc.provenance = alloc.provenance
           /\ w.alloc.bytes[1] = alloc.bytes[1]
           /\ w.alloc.bytes[PtrSize + 1] = 1

(***************************************************************************)
(* Properties of AllocRange, under SpecRange.                              *)
(***************************************************************************)
\* A nested range fits inside its parent: it ends within the parent's size.
Fits(sub, parent) == sub.start + sub.size <= parent.size

\* C9: when inner fits inside outer and innermost fits inside inner,
\* outer.subrange(inner).subrange(innermost) equals
\* outer.subrange(alloc_range(inner.start + innermost.start, innermost.size)),
\* and both are a range when outer's own end does not overflow.
C9_SubrangeComposes ==
    (/\ rng.nested # Unset /\ rng.combined # Unset
     /\ Fits(rng.inner, rng.outer) /\ Fits(rng.innermost, rng.inner)) =>
        /\ rng.nested = rng.combined
        /\ rng.outer.start + rng.outer.size <= SizeMax => rng.nested.tag = "Ok"

C9_Witness ==
    /\ rng.nested # Unset /\ rng.combined # Unset
    /\ rng.outer.start > 0 /\ rng.inner.start > 0 /\ rng.innermost.start > 0
    /\ rng.innermost.size > 0
    /\ Fits(rng.inner, rng.outer) /\ Fits(rng.innermost, rng.inner)
    /\ rng.nested.tag = "Ok" /\ rng.nested = rng.combined

\* C10: parent.subrange(sub) returns {start: parent.start + sub.start,
\* size: sub.size} exactly when parent.start + sub.start + sub.size is at most
\* parent.end(); otherwise the call fails, so a returned range never extends
\* outside the parent; end() is start + size with an overflow of Size detected
\* (the call fails) and never wrapped.
C10_SubrangeBoundsChecked ==
    rng.first # Unset =>
        LET p == rng.outer
            s == rng.inner
        IN  /\ end(p) = (IF p.start + p.size > SizeMax THEN Overflow ELSE p.start + p.size)
            /\ IF p.start + p.size > SizeMax
               THEN rng.first = Panic
               ELSE IF p.start + s.start + s.size <= p.start + p.size
                    THEN rng.first = [tag |-> "Ok",
                                      range |-> [start |-> p.start + s.start, size |-> s.size]]
                    ELSE rng.first = Panic
            /\ rng.first.tag = "Ok" =>
                  /\ p.start <= rng.first.range.start
                  /\ rng.first.range.start + rng.first.range.size <= p.start + p.size

\* A rejected call: sub alone is a valid range, and ends past the parent.
C10_Witness ==
    /\ rng.first = Panic
    /\ rng.outer.start + rng.outer.size <= SizeMax
    /\ rng.inner.start + rng.inner.size <= SizeMax
    /\ rng.outer.start + rng.inner.start + rng.inner.size > rng.outer.start + rng.outer.size

(***************************************************************************)
(* Properties of the bulk copy, under SpecCopy.                            *)
(***************************************************************************)
\* C7: with the destination range clear of provenance, committing the prepared
\* copies (provenance_apply_copy, init_mask_apply_copy) of a source range
\* repeated N times, each copy placed right after the one before, leaves the
\* destination with the init mask and the provenance entries that N single
\* copies leave; and the copy is refused with PartialPointerCopy when preparing
\* it exactly when the first single copy is.
C7_BulkCopyIsRepeatedCopy ==
    /\ (cp.prepared # Unset /\ cp.naiveRes.tag = "Err") => cp.prepared.prov = cp.naiveRes
    /\ (cp.prepared # Unset /\ cp.naiveDone > 0) => cp.prepared.prov.tag = "Ok"
    /\ (cp.provDone /\ cp.naiveDone = cp.repeat) =>
          cp.bulk.provenance = cp.naive.provenance
    /\ (cp.initDone /\ cp.naiveDone = cp.repeat) =>
          cp.bulk.init_mask = cp.naive.init_mask

C7_Witness ==
    /\ cp.provDone /\ cp.initDone /\ cp.naiveDone = cp.repeat /\ cp.repeat = MaxRepeat
    /\ Len(cp.bulk.provenance) >= MaxRepeat + 1
    /\ \E i, j \in RangeBytes(alloc_range(cp.dest, cp.range.size)) :
          cp.bulk.init_mask[i + 1] /\ ~cp.bulk.init_mask[j + 1]
    /\ cp.bulk = cp.naive

(***************************************************************************)
(* Properties of equality and hashing, under SpecHash.                     *)
(***************************************************************************)
\* The two allocations differ in bytes that the hasher is not fed, and in
\* nothing else.
DifferInUnhashedBytesOnly ==
    /\ Len(hs.a.bytes) = Len(hs.b.bytes)
    /\ Len(hs.a.bytes) > MAX_HASHED_BUFFER_LEN
    /\ hs.a.bytes # hs.b.bytes
    /\ \A i \in 1..Len(hs.a.bytes) :
          hs.a.bytes[i] # hs.b.bytes[i] =>
              MAX_BYTES_TO_HASH < i /\ i <= Len(hs.a.bytes) - MAX_BYTES_TO_HASH
    /\ [hs.a EXCEPT !.bytes = <<>>] = [hs.b EXCEPT !.bytes = <<>>]

\* C8: two allocations with identical bytes, provenance, init mask, alignment
\* and mutability compare equal and feed the hasher the same input, at lengths
\* up to 128 (every byte hashed) and above (length, first 64 and last 64 bytes
\* hashed); allocations that compare equal are identical in every byte, so two
\* that differ only in a middle byte that is not hashed feed the hasher the same
\* input and still compare unequal.
C8_EqualityIsStructural ==
    hs.done = {"eq", "ha", "hb"} =>
        /\ hs.a = hs.b => (hs.eq = TRUE /\ hs.ha = hs.hb)
        /\ hs.eq = TRUE => (hs.a.bytes = hs.b.bytes /\ hs.ha = hs.hb)
        /\ Len(hs.a.bytes) <= MAX_HASHED_BUFFER_LEN =>
              (hs.ha = hs.hb <=> hs.eq = TRUE)
        /\ DifferInUnhashedBytesOnly => (hs.ha = hs.hb /\ hs.eq = FALSE)

C8_Witness ==
    /\ hs.done = {"eq", "ha", "hb"}
    /\ DifferInUnhashedBytesOnly
    /\ hs.ha = hs.hb /\ hs.eq = FALSE

(***************************************************************************)
(* Properties of adjust_from_tcx, under SpecAdjust.                        *)
(***************************************************************************)
\* The pointer stored at the k-th entry of the allocation given to the call.
StoredPtr(k) ==
    LET e == adj.self.provenance[k]
    IN  Pointer(e.prov,
                read_target_uint(endian, SubSeq(adj.self.bytes, e.off + 1, e.off + PtrSize)))

\* The entries whose pointer adjust_ptr fails on.
FailingEntries == {k \in 1..Len(adj.self.provenance) : StoredPtr(k) \in adj.f.fail}

\* C11: when adjust_ptr fails on an entry (the first, a middle or the last one)
\* adjust_from_tcx returns the error of the first failing entry, the caller is
\* left holding no allocation at all, so none with bytes re-encoded in part,
\* and adjust_ptr was called on the entries up to the failing one and on no
\* later one; when it fails on none, the caller holds the allocation with every
\* pointer re-encoded and remapped and all else as it was.
C11_AdjustFailsAtomically ==
    adj.out # Unset =>
        LET n == Len(adj.self.provenance)
        IN  IF FailingEntries # {}
            THEN LET k == Min(FailingEntries)
                 IN  /\ adj.out.res = adjust_ptr(adj.f, StoredPtr(k))
                     /\ adj.out.res.tag = "Err"
                     /\ adj.held = {}
                     /\ adj.out.calls = [i \in 1..k |-> StoredPtr(i)]
            ELSE /\ adj.out.res.tag = "Ok"
                 /\ adj.held = {adj.out.res.val}
                 /\ adj.out.calls = [i \in 1..n |-> StoredPtr(i)]
                 /\ LET new == adj.out.res.val
                    IN  /\ Len(new.bytes) = Len(adj.self.bytes)
                        /\ \A i \in 1..Len(new.bytes) :
                              (\A e \in Entries(adj.self) : (i - 1) \notin Span(e.off)) =>
                                  new.bytes[i] = adj.self.bytes[i]
                        /\ new.provenance =
                              [i \in 1..n |-> [off |-> adj.self.provenance[i].off,
                                               prov |-> MachineProv(adj.self.provenance[i].prov)]]
                        /\ \A i \in 1..n :
                              read_target_uint(endian,
                                  SubSeq(new.bytes, new.provenance[i].off + 1,
                                         new.provenance[i].off + PtrSize))
                                = adjust_ptr(adj.f, StoredPtr(i)).val.offset
                        /\ new.init_mask = adj.self.init_mask
                        /\ new.align = adj.self.align
                        /\ new.mutability = adj.self.mutability
                        /\ new.extra = "machine"

\* adjust_ptr failed on the middle one of three pointers, after the first was
\* remapped to another offset.
C11_Witness ==
    /\ adj.out # Unset
    /\ Len(adj.self.provenance) = MaxPtrs
    /\ adj.out.res.tag = "Err"
    /\ FailingEntries = {2}
    /\ Len(adj.out.calls) = 2
    /\ adj.f.add = 1
    /\ adj.held = {}

\* C21: a successful adjust_from_tcx returns an allocation of the same length,
\* init mask, alignment and mutability; its provenance map has one entry per
\* entry of the input, at the same offset and in the same order, with the
\* provenance adjust_ptr returned; the pointer-width bytes at each entry are the
\* encoding of the offset adjust_ptr returned, the bytes outside the spans are
\* unchanged; adjust_ptr was called once per entry, in ascending order of
\* offset, with the old provenance and the offset decoded from the bytes.
C21_AdjustRewritesPointers ==
    (adj.out # Unset /\ adj.out.res.tag = "Ok") =>
        LET old == adj.self
            new == adj.out.res.val
            n == Len(old.provenance)
            Returned(i) == adjust_ptr(adj.f, StoredPtr(i)).val
        IN  /\ Len(new.bytes) = Len(old.bytes)
            /\ new.init_mask = old.init_mask
            /\ new.align = old.align
            /\ new.mutability = old.mutability
            /\ Len(new.provenance) = n
            /\ \A i \in 1..n :
                  /\ new.provenance[i].off = old.provenance[i].off
                  /\ new.provenance[i].prov = Returned(i).prov
                  /\ SubSeq(new.bytes, old.provenance[i].off + 1, old.provenance[i].off + PtrSize)
                        = write_target_uint(endian, PtrSize, Returned(i).offset)
            /\ \A b \in 1..Len(old.bytes) :
                  (\A e \in Entries(old) : (b - 1) \notin Span(e.off)) =>
                      new.bytes[b] = old.bytes[b]
            /\ Len(adj.out.calls) = n
            /\ \A i \in 1..n : adj.out.calls[i] = StoredPtr(i)
            /\ \A i \in 1..n, j \in 1..n :
                  i < j => old.provenance[i].off < old.provenance[j].off

\* Every pointer of a full buffer was remapped to another offset.
C21_Witness ==
    /\ adj.out # Unset /\ adj.out.res.tag = "Ok"
    /\ Len(adj.self.provenance) = MaxPtrs
    /\ adj.f.add = 1
    /\ adj.out.res.val.bytes # adj.self.bytes
    /\ Len(adj.out.res.val.provenance) = MaxPtrs

(***************************************************************************)
(* Properties of uninit as a call, under SpecUninit.                       *)
(***************************************************************************)
\* C12: when the buffer is not obtained, uninit panics if panic_on_fail is set,
\* and returns the MemoryExhausted error, with no allocation, if it is not;
\* with panic_on_fail set it never returns an error; when the buffer is
\* obtained it returns an allocation of `size` zero bytes, none of them
\* initialized, with no provenance, the given alignment and mutability Mut,
\* whatever panic_on_fail is.
C12_UninitFailure ==
    mk.out # Unset =>
        LET res == mk.out.res
        IN  /\ (~mk.obtained /\ mk.panic_on_fail) => res = Panic
            /\ mk.panic_on_fail => res.tag # "Err"
            /\ (~mk.obtained /\ ~mk.panic_on_fail) => res = Err([kind |-> "MemoryExhausted"])
            /\ mk.obtained =>
                  /\ res.tag = "Ok"
                  /\ res.val.bytes = [i \in 1..mk.size |-> 0]
                  /\ res.val.init_mask = [i \in 1..mk.size |-> FALSE]
                  /\ res.val.provenance = <<>>
                  /\ res.val.align = mk.align
                  /\ res.val.mutability = "Mut"

\* The buffer of a non-empty allocation was refused and the caller had asked for
\* an error.
C12_Witness ==
    /\ mk.out # Unset
    /\ mk.size > 0 /\ ~mk.obtained /\ ~mk.panic_on_fail
    /\ mk.out.res.tag = "Err"

(***************************************************************************)
(* Properties of the provenance map, under SpecProv.                       *)
(***************************************************************************)
\* The entries are in ascending order of offset and each span ends before the
\* next begins.
SortedDisjoint(pm) ==
    \A i \in 1..Len(pm), j \in 1..Len(pm) : i < j => pm[i].off + PtrSize <= pm[j].off

\* C19: after any sequence of write_scalar, write_uninit and get_bytes_mut calls
\* the entries of the provenance map are in ascending order of offset, no offset
\* twice, and their pointer-width spans are pairwise disjoint; a pointer write
\* whose span shares a byte with the span of an entry either succeeds, and then
\* its own entry is the only one left on those bytes, or fails and leaves the
\* map as it was.
C19_EntriesSortedDisjoint ==
    /\ SortedDisjoint(alloc.provenance)
    /\ \A R \in {r \in RangesWithin(ProvLen) : r.size = PtrSize}, p \in Provs :
          LET w == write_scalar(alloc, R, ScalarPtr(p, 0))
          IN  /\ w.res.tag \in {"Ok", "Err"}
              /\ w.res.tag = "Ok" =>
                    {e \in Entries(w.alloc) : Span(e.off) \cap RangeBytes(R) # {}}
                        = {[off |-> R.start, prov |-> p]}
              /\ w.res.tag = "Err" => w.alloc.provenance = alloc.provenance

\* The buffer is full of pointers, and a pointer written over the second half
\* of the first and the first half of the second replaces both.
C19_Witness ==
    /\ Len(alloc.provenance) = MaxPtrs
    /\ destroyAllowed
    /\ last.op = "write_scalar" /\ last.res = "Ok"
    /\ LET w == write_scalar(alloc, alloc_range(1, PtrSize), ScalarPtr("B", 0))
       IN  /\ w.res.tag = "Ok"
           /\ Len(w.alloc.provenance) = MaxPtrs - 1
           /\ w.alloc.provenance[1] = [off |-> 1, prov |-> "B"]
           /\ SortedDisjoint(w.alloc.provenance)

(***************************************************************************)
(* Properties of read_scalar, under SpecRead.                              *)
(***************************************************************************)
\* The provenance of the entry whose span holds the byte at offset o.
ByteProv(a, o) ==
    IF \E e \in Entries(a) : o \in Span(e.off)
    THEN (CHOOSE e \in Entries(a) : o \in Span(e.off)).prov
    ELSE None

\* The provenances found on the bytes of a range.
ProvsOn(a, r) == {ByteProv(a, o) : o \in RangeBytes(r)} \ {None}

ReqIds == {1, 2}

\* How many events the main loop takes from the client and from the file
\* watcher together, and the files a client may open.
MaxEvents == 4
Files == {"a"}

\* ThreadPool::new(4) and bounded::<Task>(16), with fewer threads and a
\* shorter channel, so that jobs wait for a thread and senders for room.
PoolThreads == 2
TaskCap == 1

\* An event starts at most one job.
MaxJobs == MaxEvents

OptNone == [tag |-> "None"]
OptSome(v) == [tag |-> "Some", val |-> v]

\* params.id of a Cancel: NumberOrString.
Number(i) == [tag |-> "Number", val |-> i]
String(i) == [tag |-> "String", val |-> i]

\* The request types of the chain in on_request, in its order.
Handlers ==
    << "SyntaxTree", "ExtendSelection", "FindMatchingBrace", "JoinLines",
       "OnTypeFormatting", "DocumentSymbolRequest", "WorkspaceSymbol",
       "GotoDefinition", "ParentModule", "Runnables", "DecorationsRequest",
       "Completion", "CodeActionRequest" >>

\* A message of the client.  ok tells whether the fallible steps of its
\* handler succeed: uri.to_file_path, content_changes.pop, change_mem_file,
\* remove_mem_file.
RawMessage(kind, method, id, pid, ok) ==
    [kind |-> kind, method |-> method, id |-> id, params |-> [id |-> pid, ok |-> ok]]

RawRequest(method, id) == RawMessage("Request", method, id, Number(0), TRUE)

RawNotification(method, pid, ok) == RawMessage("Notification", method, 0, pid, ok)

RequestMethods == {Handlers[1], Handlers[Len(Handlers)], "Unknown", "Shutdown"}

ClientMessages ==
    {RawRequest(m, i) : m \in RequestMethods, i \in ReqIds}
    \cup {RawNotification("Cancel", Number(i), TRUE) : i \in ReqIds}
    \cup {RawNotification("Cancel", String(0), TRUE)}
    \cup {RawNotification(m, Number(0), ok) :
            m \in {"DidOpenTextDocument", "DidChangeTextDocument",
                   "DidCloseTextDocument"},
            ok \in BOOLEAN}
    \cup {RawNotification("Other", Number(0), TRUE)}
    \cup {RawMessage("Response", "", 1, Number(0), TRUE)}

\* msg.cast::<R>(): the id when the method is R's, the message back otherwise.
cast(msg, R) == IF msg.method = R THEN Ok([id |-> msg.id]) ELSE Err(msg)

\* A closure given to pool.execute.  id is the request it answers (0 for the
\* closure of update_file_notifications_on_threadpool); st is queued,
\* running (the handler holds the JobToken), sending (the handler returned
\* and dropped the token) or done (the closure ended and dropped its sender);
\* left is the number of tasks it has yet to send; canceled counts the calls
\* of cancel on its JobHandle.
Job(id, left) == [id |-> id, st |-> "queued", left |-> left, canceled |-> 0]

\* The jobs are kept in MaxJobs places; a JobHandle is the place of its job.
\* A place is free when its closure has ended and no handle to it is left.
NoJob == [id |-> 0, st |-> "free", left |-> 0, canceled |-> 0]

Places == 1..MaxJobs

NewPlace(jobs) == Min({j \in Places : jobs[j].st = "free"})

\* pool.execute(closure)
execute(jobs, job) == [jobs EXCEPT ![NewPlace(jobs)] = job]

Reap(s) ==
    [s EXCEPT !.jobs =
        [j \in Places |->
            IF /\ s.jobs[j].st = "done"
               /\ \A i \in ReqIds : s.pending_requests[i] # j
            THEN NoJob ELSE s.jobs[j]]]

\* handle.has_completed(): the job's token was dropped.
has_completed(jobs, handle) == jobs[handle].st \in {"sending", "done"}

\* What the main thread gives msg_sender: the response of a job, the error
\* response to an unknown request, a notification.
Sent(kind, id, code) == [kind |-> kind, id |-> id, code |-> code]

Respond(id) == [kind |-> "Respond", id |-> id]
Notify == [kind |-> "Notify", id |-> 0]

\* The main thread ended in a panic; at keeps where it was.
Panicked(s, why) == [s EXCEPT !.phase = "panicked", !.why = why, !.at = s.phase]

\* The main thread returned an error.
Failed(s, why) == [s EXCEPT !.phase = "failed", !.why = why, !.at = s.phase]

\* The state between two events of the main thread.  What the handling of
\* the event gave msg_sender has gone to the client.  When main_loop has
\* ended, its map, its channel and the threads of its pool are gone with
\* it; what stays is how it ended and the responses the client still waits
\* for.
Settled(s) ==
    IF s.phase \in {"loop", "drain", "joined"}
    THEN [Reap(s) EXCEPT !.sent = <<>>]
    ELSE [s EXCEPT !.pending_requests = [i \in ReqIds |-> 0],
                   !.jobs = [j \in Places |-> NoJob],
                   !.task_chan = <<>>, !.sent = <<>>, !.subs = {},
                   !.fs_receiver = "None", !.events = 0]

\* PoolDispatcher::on that puts the request back after starting its job.
on_keeps_req(d, R) ==
    IF d.req.tag = "None" THEN d
    ELSE LET req == d.req.val
             c == cast(req, R)
         IN  IF c.tag = "Ok"
             THEN [req |-> OptSome(req),
                   res |-> OptSome([id |-> c.val.id, handle |-> NewPlace(d.jobs)]),
                   jobs |-> execute(d.jobs, Job(c.val.id, 1)),
                   by |-> Append(d.by, R)]
             ELSE [d EXCEPT !.req = OptSome(c.err)]

\* PoolDispatcher::on::<R>.  d.jobs are the jobs of the pool, d.by the
\* handlers that were given a job.
on(d, R) ==
    IF d.req.tag = "None" THEN d
    ELSE LET req == d.req.val
             c == cast(req, R)
         IN  IF c.tag = "Ok"
             THEN [req |-> OptNone,
                   res |-> OptSome([id |-> c.val.id, handle |-> NewPlace(d.jobs)]),
                   jobs |-> execute(d.jobs, Job(c.val.id, 1)),
                   by |-> Append(d.by, R)]
             ELSE [d EXCEPT !.req = OptSome(c.err)]

\* PoolDispatcher::finish
finish(d) ==
    CASE d.res.tag = "Some" /\ d.req.tag = "None" -> Ok(d.res.val)
      [] d.res.tag = "None" /\ d.req.tag = "Some" -> Err(d.req.val)
      [] OTHER -> Panic

\* The chain of .on::<R>(handler)? from the i-th request type on.
RECURSIVE OnFrom(_, _)
OnFrom(d, i) == IF i > Len(Handlers) THEN d ELSE OnFrom(on(d, Handlers[i]), i + 1)

\* The dispatcher of on_request after the whole chain.
Dispatch(jobs, req) ==
    OnFrom([req |-> OptSome(req), res |-> OptNone, jobs |-> jobs, by |-> <<>>], 1)

\* on_request
on_request(s, req) ==
    LET d == Dispatch(s.jobs, req)
        r == finish(d)
    IN  CASE r.tag = "Panic" ->
               [srv |-> Panicked([s EXCEPT !.jobs = d.jobs], "unreachable"), res |-> Panic]
          [] r.tag = "Err" -> [srv |-> s, res |-> Ok(OptSome(r.err))]
          [] r.tag = "Ok" ->
               LET t == [s EXCEPT !.jobs = d.jobs,
                                  !.owed[r.val.id] = @ + Len(d.by),
                                  !.pending_requests[r.val.id] = r.val.handle]
               IN  IF s.pending_requests[r.val.id] = 0
                   THEN [srv |-> t, res |-> Ok(OptNone)]
                   ELSE [srv |-> Panicked(t, "duplicate request"), res |-> Panic]

\* The Cancel branch of on_notification that keeps the id pending.
cancel_keeps_pending(s, id) ==
    LET handle == s.pending_requests[id]
    IN  IF handle = 0 THEN s
        ELSE [s EXCEPT !.jobs[handle].canceled = @ + 1]

\* The Cancel branch of on_notification for a numeric id.
cancel(s, id) ==
    LET handle == s.pending_requests[id]
    IN  IF handle = 0 THEN s
        ELSE [s EXCEPT !.pending_requests[id] = 0,
                       !.jobs[handle].canceled = @ + 1]

\* on_notification
on_notification(s, not) ==
    CASE not.method = "Cancel" ->
           IF not.params.id.tag = "String"
           THEN [srv |-> Panicked(s, "string id's not supported"), res |-> Panic]
           ELSE [srv |-> cancel(s, not.params.id.val), res |-> Ok(0)]
      [] not.method = "DidOpenTextDocument" ->
           IF ~not.params.ok THEN [srv |-> s, res |-> Err("invalid uri")]
           ELSE [srv |-> [s EXCEPT !.subs = @ \cup Files], res |-> Ok(0)]
      [] not.method = "DidChangeTextDocument" ->
           IF ~not.params.ok THEN [srv |-> s, res |-> Err("invalid change")]
           ELSE [srv |-> s, res |-> Ok(0)]
      [] not.method = "DidCloseTextDocument" ->
           IF ~not.params.ok THEN [srv |-> s, res |-> Err("invalid uri")]
           ELSE [srv |-> [s EXCEPT !.subs = @ \ Files,
                                   !.sent = Append(@, Sent("Notification", 0, ""))],
                 res |-> Ok(0)]
      [] OTHER -> [srv |-> s, res |-> Ok(0)]

\* on_task that forwards a response only when its id is pending.
on_task_pending_only(s, task) ==
    IF task.kind = "Notify"
    THEN [s EXCEPT !.sent = Append(@, Sent("Notification", 0, ""))]
    ELSE LET handle == s.pending_requests[task.id]
             t == [s EXCEPT !.pending_requests[task.id] = 0]
         IN  IF handle = 0 THEN s
             ELSE IF ~has_completed(s.jobs, handle)
             THEN Panicked(t, "has_completed")
             ELSE [t EXCEPT !.owed[task.id] = @ - 1,
                            !.sent = Append(@, Sent("Response", task.id, "Result"))]

\* on_task
on_task(s, task) ==
    IF task.kind = "Notify"
    THEN [s EXCEPT !.sent = Append(@, Sent("Notification", 0, ""))]
    ELSE LET handle == s.pending_requests[task.id]
             t == [s EXCEPT !.pending_requests[task.id] = 0]
         IN  IF handle # 0 /\ ~has_completed(s.jobs, handle)
             THEN Panicked(t, "has_completed")
             ELSE [t EXCEPT !.owed[task.id] = @ - 1,
                            !.sent = Append(@, Sent("Response", task.id, "Result"))]

\* update_file_notifications_on_threadpool: one closure that publishes
\* diagnostics and decorations for every subscription.
update_file_notifications_on_threadpool(s) ==
    [s EXCEPT !.jobs = execute(@, Job(0, 2 * Cardinality(s.subs)))]

\* The body of the loop of main_loop_inner for Event::Msg(msg).
on_msg(s, msg) ==
    CASE msg.kind = "Request" ->
           IF cast(msg, "Shutdown").tag = "Ok"
           THEN [s EXCEPT !.phase = "drain"]
           ELSE LET r == on_request(s, msg)
                IN  IF r.res.tag = "Panic" THEN r.srv
                    ELSE IF r.res.val.tag = "None" THEN r.srv
                    ELSE [r.srv EXCEPT !.sent =
                             Append(@, Sent("Response", r.res.val.val.id, "MethodNotFound"))]
      [] msg.kind = "Notification" ->
           LET r == on_notification(s, msg)
           IN  CASE r.res.tag = "Panic" -> r.srv
                 [] r.res.tag = "Err" -> Failed(r.srv, r.res.err)
                 [] OTHER -> update_file_notifications_on_threadpool(r.srv)
      [] OTHER -> s

InitServer ==
    /\ srv = [phase |-> "loop", why |-> "", at |-> "", events |-> 0,
              pending_requests |-> [i \in ReqIds |-> 0],
              jobs |-> [j \in Places |-> NoJob], owed |-> [i \in ReqIds |-> 0],
              task_chan |-> <<>>, sent |-> <<>>,
              subs |-> {}, fs_receiver |-> "Some"]
    /\ AllocIdle
    /\ rng = Idle /\ cp = Idle /\ hs = Idle /\ adj = Idle /\ mk = Idle

ServerOnly == AllocUnchanged /\ UNCHANGED <<rng, cp, hs, adj, mk>>


\* recv(msg_receiver, msg) with Some(msg), and the body of the loop for it.
RecvMsg ==
    /\ srv.phase = "loop" /\ srv.events < MaxEvents
    /\ \E msg \in ClientMessages :
          srv' = Settled(on_msg([srv EXCEPT !.events = @ + 1], msg))
    /\ ServerOnly

\* recv(msg_receiver, msg) with None: the client closed its side.
ClientExit ==
    /\ srv.phase = "loop"
    /\ srv' = Settled(Failed(srv, "client exited without shutdown"))
    /\ ServerOnly

\* recv(task_receiver, task) in the loop, and on_task for it.
RecvTask ==
    /\ srv.phase = "loop" /\ srv.task_chan # <<>>
    /\ srv' = Settled(on_task([srv EXCEPT !.task_chan = Tail(@)], Head(srv.task_chan)))
    /\ ServerOnly

\* recv(fs_receiver, events) with Some(events): the changes are applied and
\* the notifications are recomputed.
RecvFs ==
    /\ srv.phase = "loop" /\ srv.events < MaxEvents
    /\ srv.fs_receiver = "Some"
    /\ srv' = Settled(update_file_notifications_on_threadpool(
                          [srv EXCEPT !.events = @ + 1]))
    /\ ServerOnly

\* recv(fs_receiver, events) with None: Event::FsWatcherDead.
FsWatcherDead ==
    /\ srv.phase = "loop" /\ srv.events < MaxEvents
    /\ srv.fs_receiver = "Some"
    /\ srv' = [srv EXCEPT !.fs_receiver = "None", !.events = @ + 1]
    /\ ServerOnly

\* The main thread runs: workers end with the process once it has gone.
Running == srv.phase \in {"loop", "drain"}

Busy == {j \in Places : srv.jobs[j].st \in {"running", "sending"}}

\* A thread of the pool takes the closure of job j from the queue.
JobStart(j) ==
    /\ Running
    /\ srv.jobs[j].st = "queued"
    /\ Cardinality(Busy) < PoolThreads
    /\ srv' = [srv EXCEPT !.jobs[j].st = "running"]
    /\ ServerOnly

\* The handler of job j returns, which drops the token; the closure of
\* update_file_notifications_on_threadpool learns how many of its
\* computations succeeded.
JobReturn(j) ==
    /\ Running
    /\ srv.jobs[j].st = "running"
    /\ \E k \in 0..srv.jobs[j].left :
          /\ srv.jobs[j].id # 0 => k = 1
          /\ srv' = Reap([srv EXCEPT !.jobs[j].left = k,
                                     !.jobs[j].st = IF k = 0 THEN "done" ELSE "sending"])
    /\ ServerOnly

\* sender.send(task) of job j: blocks while the channel is full.
JobSend(j) ==
    /\ Running
    /\ srv.jobs[j].st = "sending"
    /\ Len(srv.task_chan) < TaskCap
    /\ LET job == srv.jobs[j]
           task == IF job.id # 0 THEN Respond(job.id) ELSE Notify
       IN  srv' = Reap([srv EXCEPT !.task_chan = Append(@, task),
                                   !.jobs[j].left = @ - 1,
                                   !.jobs[j].st = IF job.left = 1 THEN "done" ELSE "sending"])
    /\ ServerOnly

\* One step of task_receiver.for_each in main_loop.
DrainTask ==
    /\ srv.phase = "drain" /\ srv.task_chan # <<>>
    /\ srv' = Settled(on_task([srv EXCEPT !.task_chan = Tail(@)], Head(srv.task_chan)))
    /\ ServerOnly

\* for_each ends when the channel is empty and every sender is dropped;
\* pool.join() follows.
DrainEnd ==
    /\ srv.phase = "drain" /\ srv.task_chan = <<>>
    /\ \A j \in Places : srv.jobs[j].st \in {"free", "done"}
    /\ srv' = [srv EXCEPT !.phase = "joined"]
    /\ ServerOnly

\* watcher.stop()?; Ok(())
WatcherStop ==
    /\ srv.phase = "joined"
    /\ srv' = Settled([srv EXCEPT !.phase = "done"])
    /\ ServerOnly

NextServer ==
    \/ RecvMsg
    \/ ClientExit
    \/ RecvTask
    \/ RecvFs
    \/ FsWatcherDead
    \/ \E j \in Places : JobStart(j)
    \/ \E j \in Places : JobReturn(j)
    \/ \E j \in Places : JobSend(j)
    \/ DrainTask
    \/ DrainEnd
    \/ WatcherStop

SpecServer == InitServer /\ [][NextServer]_vars

\* select! picks among the ready receivers at random, so a task that waits
\* in the channel is taken; for_each and the threads of the pool run on; a
\* handler returns; a sender blocked on the full channel goes on when there
\* is room.  Nothing is assumed of the client and of the file watcher.
FairServer ==
    /\ SpecServer
    /\ WF_vars(RecvTask) /\ WF_vars(DrainTask)
    /\ WF_vars(DrainEnd) /\ WF_vars(WatcherStop)
    /\ \A j \in Places :
          /\ WF_vars(JobStart(j))
          /\ WF_vars(JobReturn(j))
          /\ WF_vars(JobSend(j))

(***************************************************************************)
(* Properties of the main loop, under SpecServer and FairServer.           *)
(***************************************************************************)

\* The main thread is in main_loop_inner or in the for_each of main_loop.
Serving == srv.phase \in {"loop", "drain"}

\* The main loop waits and the client may send another message.
Awaiting == srv.phase = "loop" /\ srv.events < MaxEvents

\* How main_loop can end.
Ended == {"failed", "panicked"}

RECURSIVE CountIn(_, _)
CountIn(tasks, task) ==
    IF tasks = <<>> THEN 0
    ELSE (IF Head(tasks) = task THEN 1 ELSE 0) + CountIn(Tail(tasks), task)

\* The responses for id that are on their way: a job that has yet to send
\* one, or one that waits in the channel.
InFlight(s, id) ==
    Cardinality({j \in Places : /\ s.jobs[j].id = id
                                /\ s.jobs[j].st \in {"queued", "running", "sending"}})
    + CountIn(s.task_chan, Respond(id))

\* The task the main thread would take next, and the state on_task leaves.
NextTask == Head(srv.task_chan)

AfterNextTask == on_task([srv EXCEPT !.task_chan = Tail(@)], NextTask)

Requests == {RawRequest(m, i) : m \in RequestMethods \ {"Shutdown"}, i \in ReqIds}

\* C24: whatever the client has sent, on_request never inserts an id that is
\* already in pending_requests: the assertion on `inserted` holds for every
\* request that may come next.
C24_NoDuplicateRequest ==
    Awaiting =>
        \A req \in Requests : on_request(srv, req).res.tag # "Panic"

\* C25: whenever on_task takes a Respond whose id is still pending, the handle
\* stored for the id has completed, so the assertion holds, and the id is
\* removed from pending_requests.
C25_PendingHandleHasCompleted ==
    (Serving /\ srv.task_chan # <<>> /\ NextTask.kind = "Respond"
        /\ srv.pending_requests[NextTask.id] # 0)
    => /\ has_completed(srv.jobs, srv.pending_requests[NextTask.id])
       /\ AfterNextTask.phase # "panicked"
       /\ AfterNextTask.pending_requests[NextTask.id] = 0

\* C26: after Shutdown main_loop_inner has returned, and main_loop comes to
\* its end: it forwards the tasks still produced, leaves for_each, joins the
\* pool and stops the watcher.
C26_ShutdownTerminates == (srv.phase = "drain") ~> (srv.phase = "done")

\* The request types and a method that none of them has.
Methods == {Handlers[k] : k \in 1..Len(Handlers)} \cup {"Unknown"}

\* The places whose job differs between two states of the pool.
Changed(before, after) == {j \in Places : before[j] # after[j]}

\* C27: a request no handler accepts is answered with exactly one
\* MethodNotFound error response with its id, starts no job and adds nothing
\* to pending_requests; a request a handler accepts is given to exactly one
\* handler, the one of its method, as one job; finish never reaches
\* unreachable!().
C27_RequestsDispatchedOnce ==
    Awaiting =>
        \A m \in Methods, i \in ReqIds :
            LET req == RawRequest(m, i)
                d == Dispatch(srv.jobs, req)
                t == on_msg(srv, req)
            IN  /\ finish(d).tag # "Panic"
                /\ IF m = "Unknown"
                   THEN /\ d.by = <<>>
                        /\ on_request(srv, req).res = Ok(OptSome(req))
                        /\ t.sent = <<Sent("Response", i, "MethodNotFound")>>
                        /\ t.jobs = srv.jobs
                        /\ t.pending_requests = srv.pending_requests
                   ELSE /\ d.by = <<m>>
                        /\ finish(d).tag = "Ok"
                        /\ Changed(srv.jobs, d.jobs) = {finish(d).val.handle}
                        /\ d.jobs[finish(d).val.handle] = Job(i, 1)
                        /\ t.sent = <<>>

\* Request 1 was given to a handler and its job waits in the pool; an unknown
\* request with id 2 gets the error response and leaves the job and the map
\* as they are.
C27_Witness ==
    /\ Awaiting
    /\ srv.pending_requests[1] # 0
    /\ srv.jobs[srv.pending_requests[1]] = Job(1, 1)
    /\ srv.pending_requests[2] = 0
    /\ LET t == on_msg(srv, RawRequest("Unknown", 2))
       IN  /\ t.sent = <<Sent("Response", 2, "MethodNotFound")>>
           /\ t.jobs = srv.jobs

\* C28: a Cancel for an id removes the id from pending_requests and cancels
\* its handle, once; a Cancel for an id that is not pending cancels nothing,
\* gives msg_sender nothing and leaves pending_requests as it is.  No handle
\* is ever cancelled twice, and a cancelled handle is no longer pending.
C28_CancelRemovesPendingOnce ==
    /\ Serving =>
          \A j \in Places :
              /\ srv.jobs[j].canceled <= 1
              /\ srv.jobs[j].canceled = 1 =>
                    \A i \in ReqIds : srv.pending_requests[i] # j
    /\ Awaiting =>
          \A i \in ReqIds :
              LET r == on_notification(srv, RawNotification("Cancel", Number(i), TRUE))
                  handle == srv.pending_requests[i]
              IN  /\ r.res.tag = "Ok"
                  /\ r.srv.sent = <<>>
                  /\ r.srv.pending_requests =
                         [srv.pending_requests EXCEPT ![i] = 0]
                  /\ IF handle = 0
                     THEN r.srv = srv
                     ELSE /\ Changed(srv.jobs, r.srv.jobs) = {handle}
                          /\ r.srv.jobs[handle] =
                                 [srv.jobs[handle] EXCEPT !.canceled = 1]

\* The job of request 1 runs with its handle cancelled and the id no longer
\* pending, while request 2 is pending; another Cancel for 1 changes nothing.
C28_Witness ==
    /\ Awaiting
    /\ srv.pending_requests[1] = 0
    /\ \E j \in Places : srv.jobs[j] = [Job(1, 1) EXCEPT !.st = "running", !.canceled = 1]
    /\ srv.pending_requests[2] # 0
    /\ on_notification(srv, RawNotification("Cancel", Number(1), TRUE)).srv = srv

====
